---------------------------- MODULE Spec2Model ----------------------------
(***************************************************************************)
(* Model of the workbook-runtime supervisor of the desktop shell          *)
(* (packages/desktop/src-tauri/src): the RuntimeManager port pool and     *)
(* runtime table (runtime_manager.rs), the legacy worker registry with    *)
(* its start / stop handlers, the handshake reader and the restart        *)
(* monitor (lib.rs), the JobRegistry (jobs.rs), the session-event         *)
(* listener and the window-close handler (lib.rs).                        *)
(*                                                                         *)
(* Several specifications share the variables; each one drives the part   *)
(* of the state its operations touch and leaves the rest as constructed.  *)
(***************************************************************************)
EXTENDS Integers, Sequences, FiniteSets, TLC

(***************************************************************************)
(* Bounds of the model.                                                    *)
(***************************************************************************)
\* Number of ports of the dynamic runtime range that the model keeps
\* (the source's range 55001..55049 has 49; the scan is the same loop).
NumPorts == 4
\* Longest worker output (in lines) the handshake reader is given.
MaxLines == 2
\* Number of times the clock advances (by one retention window each time).
MaxTicks == 2
\* Most jobs the registry holds at a time.
MaxJobs == 2
\* Most complete records the server sends on one connection.
MaxRecords == 2

(***************************************************************************)
(* Program constants.                                                      *)
(***************************************************************************)
PORT_PREFIX == 55
RUNTIME_PORT_START == 55001
RUNTIME_PORT_END == RUNTIME_PORT_START + NumPorts - 1
MAX_RESTARTS == 5

\* Option<T>: None is the empty tuple, Some(x) the one-element tuple.
None == << >>
Some(x) == <<x>>

\* The legacy runtime port, PORT_PREFIX * 1000: a u16 outside the dynamic range.
LegacyPort == PORT_PREFIX * 1000

RuntimePorts == RUNTIME_PORT_START..RUNTIME_PORT_END

\* Workbook ids (tenants) and window labels used as inputs.
Workbooks == {"wb-1", "wb-2"}
WindowLabels == {"W1", "W2"}

VARIABLES
    \* RuntimeManager (runtime_manager.rs)
    runtimes,           \* workbook_id -> RuntimeInfo
    allocated_ports,    \* set of allocated runtime ports
    next_port,          \* next port to try
    rm_call,            \* the last RuntimeManager call and the value it returned
    \* round-robin scenario driver
    rr,                 \* [phase, n, warm, returned]
    \* AppState (lib.rs) and the tasks that share it
    workbook_servers,   \* workbook_id -> WorkbookServerProcess (legacy registry)
    lock,               \* holder of the Mutex<AppState>: "free" or a task
    task,               \* command handler invocations: position and locals
    mon,                \* the restart monitor task: position and locals
    \* JobRegistry (jobs.rs) and the rest of AppState
    jobs,               \* job id -> JobInfo
    active_count,       \* JobRegistry::active_count (AtomicU64)
    active_workbook_id, \* AppState::active_workbook_id: Option<String>
    clock,              \* the system clock, in steps of the model
    closer,             \* a close_workbook_window invocation: position and locals
    sse,                \* the event-stream listener task: position, connection, buffer
    server              \* AppState::server, the OpenCode child: "none", "running", "killed"

rmVars == <<runtimes, allocated_ports, next_port, rm_call>>
supVars == <<workbook_servers, lock, task, mon>>
appVars == <<jobs, active_count, active_workbook_id, clock, closer, sse, server>>
vars == <<runtimes, allocated_ports, next_port, rm_call, rr, workbook_servers, lock, task, mon,
          jobs, active_count, active_workbook_id, clock, closer, sse, server>>

(***************************************************************************)
(* RuntimeManager                                                          *)
(***************************************************************************)

\* The port after `port` in the range, wrapping at the end.
NextPortAfter(port) == IF port >= RUNTIME_PORT_END THEN RUNTIME_PORT_START ELSE port + 1

\* The cursor stored after `port` was handed out.
NextCursor_LowestFirst(port) == RUNTIME_PORT_START
NextCursor(port) == IF port >= RUNTIME_PORT_END THEN RUNTIME_PORT_START ELSE port + 1

\* allocate_port handing out the cursor's port without looking it up.
ScanPorts_NoLookup(port, start, allocated) == Some(port)

\* allocate_port giving up at the end of the range instead of wrapping.
RECURSIVE ScanPorts_NoWrap(_, _, _)
ScanPorts_NoWrap(port, start, allocated) ==
    IF port \notin allocated
        THEN Some(port)
        ELSE IF port >= RUNTIME_PORT_END
            THEN None
            ELSE ScanPorts_NoWrap(port + 1, start, allocated)

\* The loop of allocate_port: the first port from `port` on that is not in
\* `allocated`, or None once the scan is back at `start`.
RECURSIVE ScanPorts(_, _, _)
ScanPorts(port, start, allocated) ==
    IF port \notin allocated
        THEN Some(port)
        ELSE IF NextPortAfter(port) = start
            THEN None
            ELSE ScanPorts(NextPortAfter(port), start, allocated)

RmInit ==
    /\ runtimes = << >>
    /\ allocated_ports = {}
    /\ next_port = RUNTIME_PORT_START
    /\ rm_call = [op |-> "new", ret |-> None]

allocate_port ==
    LET found == ScanPorts(next_port, next_port, allocated_ports) IN
    /\ IF found # None
          THEN /\ allocated_ports' = allocated_ports \cup {found[1]}
               /\ next_port' = NextCursor(found[1])
          ELSE UNCHANGED <<allocated_ports, next_port>>
    /\ rm_call' = [op |-> "allocate_port", ret |-> found]
    /\ UNCHANGED runtimes

\* release_port leaving the allocated set as it is.
release_port_KeepAllocated(port) ==
    /\ rm_call' = [op |-> "release_port", ret |-> None]
    /\ UNCHANGED <<runtimes, allocated_ports, next_port>>

release_port(port) ==
    /\ allocated_ports' = allocated_ports \ {port}
    /\ rm_call' = [op |-> "release_port", ret |-> None]
    /\ UNCHANGED <<runtimes, next_port>>

\* A RuntimeInfo as a caller builds it: the fields the manager reads or writes.
RuntimeInfo(port) ==
    [runtime_port |-> port, windows |-> {}, active_jobs |-> 0, process |-> "running"]

RemoveKey(f, k) == [x \in DOMAIN f \ {k} |-> f[x]]
PutKey(f, k, v) == [x \in DOMAIN f \cup {k} |-> IF x = k THEN v ELSE f[x]]

insert(workbook_id, info) ==
    /\ allocated_ports' = allocated_ports \cup {info.runtime_port}
    /\ runtimes' = PutKey(runtimes, workbook_id, info)
    /\ rm_call' = [op |-> "insert", ret |-> None]
    /\ UNCHANGED next_port

remove(workbook_id) ==
    /\ IF workbook_id \in DOMAIN runtimes
          THEN /\ allocated_ports' = allocated_ports \ {runtimes[workbook_id].runtime_port}
               /\ runtimes' = RemoveKey(runtimes, workbook_id)
               /\ rm_call' = [op |-> "remove", ret |-> Some(runtimes[workbook_id])]
          ELSE /\ UNCHANGED <<allocated_ports, runtimes>>
               /\ rm_call' = [op |-> "remove", ret |-> None]
    /\ UNCHANGED next_port

\* register_window creating the entry it does not find.
register_window_Create(workbook_id, window_label) ==
    /\ IF workbook_id \in DOMAIN runtimes
          THEN runtimes' = [runtimes EXCEPT ![workbook_id].windows = @ \cup {window_label}]
          ELSE runtimes' = PutKey(runtimes, workbook_id,
                                  [RuntimeInfo(RUNTIME_PORT_START) EXCEPT !.windows = {window_label}])
    /\ rm_call' = [op |-> "register_window", ret |-> None]
    /\ UNCHANGED <<allocated_ports, next_port>>

register_window(workbook_id, window_label) ==
    /\ IF workbook_id \in DOMAIN runtimes
          THEN runtimes' = [runtimes EXCEPT ![workbook_id].windows = @ \cup {window_label}]
          ELSE UNCHANGED runtimes
    /\ rm_call' = [op |-> "register_window", ret |-> None]
    /\ UNCHANGED <<allocated_ports, next_port>>

\* unregister_window answering from the window set as it was before the removal.
unregister_window_Stale(workbook_id, window_label) ==
    /\ IF workbook_id \in DOMAIN runtimes
          THEN /\ runtimes' = [runtimes EXCEPT ![workbook_id].windows = @ \ {window_label}]
               /\ rm_call' = [op |-> "unregister_window",
                              ret |-> Some(runtimes[workbook_id].windows = {})]
          ELSE /\ UNCHANGED runtimes
               /\ rm_call' = [op |-> "unregister_window", ret |-> Some(FALSE)]
    /\ UNCHANGED <<allocated_ports, next_port>>

unregister_window(workbook_id, window_label) ==
    /\ IF workbook_id \in DOMAIN runtimes
          THEN /\ runtimes' = [runtimes EXCEPT ![workbook_id].windows = @ \ {window_label}]
               /\ rm_call' = [op |-> "unregister_window",
                              ret |-> Some((runtimes[workbook_id].windows \ {window_label}) = {})]
          ELSE /\ UNCHANGED runtimes
               /\ rm_call' = [op |-> "unregister_window", ret |-> Some(FALSE)]
    /\ UNCHANGED <<allocated_ports, next_port>>

(***************************************************************************)
(* Worker handshake (lib.rs, spawn_workbook_server)                        *)
(***************************************************************************)
U16_MAX == 65535

\* A line of a worker's standard output, by what the reader looks at:
\*   indent  the line begins with white space;
\*   json    "text" (not JSON), "malformed" (begins like an object, is not
\*           one) or "object";
\*   type    an object's "type" string, or "absent";
\*   port    an object's "runtimePort" number, or None.
TextLine == [indent |-> FALSE, json |-> "text", type |-> "absent", port |-> None]
MalformedLine == [indent |-> FALSE, json |-> "malformed", type |-> "absent", port |-> None]
ObjectLine(type, port) == [indent |-> FALSE, json |-> "object", type |-> type, port |-> port]
ReadyLine(port) == ObjectLine("ready", Some(port))
IndentedLine(line) == [line EXCEPT !.indent = TRUE]

\* Ports a worker reports in the model.
ReadyPorts == {55001, 55002}

\* The lines workers print in the model: ready messages, log text, an object
\* of another type, ready objects without a port or with a number that is no
\* u16, a ready message behind white space.
WorkerLines ==
    {ReadyLine(p) : p \in ReadyPorts}
        \cup {TextLine, MalformedLine,
              ObjectLine("log", Some(55001)),
              ObjectLine("ready", None),
              ObjectLine("absent", Some(55001)),
              ReadyLine(70000),
              IndentedLine(ReadyLine(55002))}

\* line.starts_with('{')
starts_with_brace(line) == ~line.indent /\ line.json \in {"malformed", "object"}

\* serde_json::from_str::<WorkbookServerReady>(&line): both fields are
\* required, runtimePort must fit u16; white space around the object is
\* accepted.
from_str_WorkbookServerReady(line) ==
    IF /\ line.json = "object"
       /\ line.type # "absent"
       /\ line.port # None
       /\ line.port[1] \in 0..U16_MAX
        THEN Some([msg_type |-> line.type, runtime_port |-> line.port[1]])
        ELSE None

\* The reader taking the first parsable object, whatever its type.
RECURSIVE ReadReady_AnyType(_)
ReadReady_AnyType(lines) ==
    IF lines = << >>
        THEN None
        ELSE LET ready == from_str_WorkbookServerReady(Head(lines)) IN
             IF starts_with_brace(Head(lines)) /\ ready # None
                 THEN Some(ready[1].runtime_port)
                 ELSE ReadReady_AnyType(Tail(lines))

\* The reader's loop over the lines it is given: the port of the first ready
\* message, or None when the lines end without one.
RECURSIVE ReadReady(_)
ReadReady(lines) ==
    IF lines = << >>
        THEN None
        ELSE LET ready == from_str_WorkbookServerReady(Head(lines)) IN
             IF /\ starts_with_brace(Head(lines))
                /\ ready # None
                /\ ready[1].msg_type = "ready"
                 THEN Some(ready[1].runtime_port)
                 ELSE ReadReady(Tail(lines))

\* One spawn attempt as the environment decides it: whether the process
\* could be started, the lines it prints within the 60 s, and whether its
\* output then ends ("eof") or it stays silent until the timeout ("hang").
Attempt(spawned, lines, ending) == [spawned |-> spawned, lines |-> lines, ending |-> ending]

RECURSIVE SeqsUpTo(_, _)
SeqsUpTo(S, n) ==
    IF n = 0
        THEN {<< >>}
        ELSE LET shorter == SeqsUpTo(S, n - 1) IN
             shorter \cup {Append(q, x) : q \in shorter, x \in S}

\* Every attempt over WorkerLines with at most MaxLines lines.
AllAttempts ==
    {Attempt(FALSE, << >>, "eof")}
        \cup {Attempt(TRUE, lines, ending) :
                  lines \in SeqsUpTo(WorkerLines, MaxLines), ending \in {"eof", "hang"}}

\* The attempts the supervisor specifications draw from: the process cannot
\* be started, a ready message at once, a ready message after log lines,
\* output without a ready message that ends or hangs.
SupAttempts ==
    {Attempt(FALSE, << >>, "eof"),
     Attempt(TRUE, <<ReadyLine(55001)>>, "hang"),
     Attempt(TRUE, <<TextLine, ReadyLine(55002)>>, "hang"),
     Attempt(TRUE, <<TextLine>>, "eof"),
     Attempt(TRUE, <<TextLine>>, "hang")}

SpawnResult(ok, child, port, err) == [ok |-> ok, child |-> child, runtime_port |-> port, err |-> err]

\* spawn_workbook_server leaving the child alive when the handshake fails.
spawn_workbook_server_NoKill(attempt) ==
    IF ~attempt.spawned
        THEN SpawnResult(FALSE, "none", 0, "Failed to start runtime")
        ELSE LET ready == ReadReady(attempt.lines) IN
             IF ready # None
                 THEN SpawnResult(TRUE, "running", ready[1], "")
                 ELSE SpawnResult(FALSE, "running", 0, "Runtime exited without ready message")

\* spawn_workbook_server: Ok((child, runtime_port)) or Err(message); on a
\* failed handshake the child is killed before the error is returned.
spawn_workbook_server(attempt) ==
    IF ~attempt.spawned
        THEN SpawnResult(FALSE, "none", 0, "Failed to start runtime")
        ELSE LET ready == ReadReady(attempt.lines) IN
             IF ready # None
                 THEN SpawnResult(TRUE, "running", ready[1], "")
                 ELSE IF attempt.ending = "eof"
                     THEN SpawnResult(FALSE, "killed", 0, "Runtime exited without ready message")
                     ELSE SpawnResult(FALSE, "killed", 0, "Timeout waiting for runtime to start")

(***************************************************************************)
(* Legacy worker registry, start / stop handlers (lib.rs)                  *)
(***************************************************************************)
Directories == {"/tmp/wb1", "/tmp/wb2"}
Callers == {"ui-1", "ui-2"}

WorkbookServerProcess(child, port, directory, restart_count) ==
    [child |-> child, runtime_port |-> port, directory |-> directory,
     restart_count |-> restart_count]

\* The results a request to a worker's HTTP server can have, by the state of
\* the worker's process and by whether the request carries a timeout: a
\* running worker answers (with a success status or another one), the port
\* of an exited worker refuses the connection, and a worker that is alive
\* but does not answer ("hung") lets the request end at its timeout, if it
\* has one, and never otherwise.
send(child, has_timeout) ==
    CASE child = "running" -> {"success", "error_status"}
      [] child = "hung" -> IF has_timeout THEN {"timeout"} ELSE {}
      [] OTHER -> {"refused"}

NoResult == [status |-> "none", running |-> FALSE, runtime_port |-> 0, message |-> ""]
OkStatus(running, port, message) ==
    [status |-> "ok", running |-> running, runtime_port |-> port, message |-> message]
ErrResult(message) == [status |-> "err", running |-> FALSE, runtime_port |-> 0, message |-> message]

\* A handler that is not running.
IdleTask ==
    [pc |-> "idle", op |-> "none", workbook_id |-> "", directory |-> "",
     existing_ids |-> {}, stopped |-> {}, child |-> "none", runtime_port |-> 0,
     result |-> NoResult]

IdleMonitor ==
    [pc |-> "sleep", to_restart |-> << >>, child |-> "none", runtime_port |-> 0]

SupInit ==
    /\ workbook_servers = << >>
    /\ lock = "free"
    /\ task = [c \in Callers |-> IdleTask]
    /\ mon = IdleMonitor

\* start_workbook_server, lines 806-809: take the lock and list the ids of
\* the runtimes that exist.
StartLock(c, workbook_id, directory) ==
    /\ task[c].pc = "idle"
    /\ lock = "free"
    /\ lock' = c
    /\ task' = [task EXCEPT ![c] =
                   [IdleTask EXCEPT !.pc = "start_stop_existing",
                                    !.op = "start_workbook_server",
                                    !.workbook_id = workbook_id,
                                    !.directory = directory,
                                    !.existing_ids = DOMAIN workbook_servers]]
    /\ UNCHANGED <<workbook_servers, mon>>

\* The stop loop passing over the runtime of the workbook being started.
StartStopExisting_SkipOwn(c) ==
    /\ task[c].pc = "start_stop_existing"
    /\ lock = c
    /\ \E existing_id \in task[c].existing_ids :
          /\ IF existing_id \in DOMAIN workbook_servers /\ existing_id # task[c].workbook_id
                THEN /\ workbook_servers' = RemoveKey(workbook_servers, existing_id)
                     /\ task' = [task EXCEPT ![c].existing_ids = @ \ {existing_id},
                                             ![c].stopped = @ \cup {existing_id}]
                ELSE /\ UNCHANGED workbook_servers
                     /\ task' = [task EXCEPT ![c].existing_ids = @ \ {existing_id}]
    /\ UNCHANGED <<lock, mon>>

\* The stop loop removing a runtime without stopping or killing it.
StartStopExisting_NoKill(c) ==
    /\ task[c].pc = "start_stop_existing"
    /\ lock = c
    /\ \E existing_id \in task[c].existing_ids :
          /\ workbook_servers' = RemoveKey(workbook_servers, existing_id)
          /\ task' = [task EXCEPT ![c].existing_ids = @ \ {existing_id}]
    /\ UNCHANGED <<lock, mon>>

\* Lines 811-824, one turn of the loop, with the lock held: remove the
\* runtime, POST /stop to it (2 s timeout, outcome ignored), kill the child.
StartStopExisting(c) ==
    /\ task[c].pc = "start_stop_existing"
    /\ lock = c
    /\ \E existing_id \in task[c].existing_ids :
          /\ IF existing_id \in DOMAIN workbook_servers
                THEN /\ send(workbook_servers[existing_id].child, TRUE) # {}
                     /\ workbook_servers' = RemoveKey(workbook_servers, existing_id)
                     /\ task' = [task EXCEPT ![c].existing_ids = @ \ {existing_id},
                                             ![c].stopped = @ \cup {existing_id}]
                ELSE /\ UNCHANGED workbook_servers
                     /\ task' = [task EXCEPT ![c].existing_ids = @ \ {existing_id}]
    /\ UNCHANGED <<lock, mon>>

\* Line 825: the loop is over, the guard is dropped.
StartUnlock(c) ==
    /\ task[c].pc = "start_stop_existing"
    /\ lock = c
    /\ task[c].existing_ids = {}
    /\ lock' = "free"
    /\ task' = [task EXCEPT ![c].pc = "start_spawn"]
    /\ UNCHANGED <<workbook_servers, mon>>

\* Lines 827-837, without the lock: spawn and handshake; an error returns
\* from the handler at once.
StartSpawn(c, attempt) ==
    /\ task[c].pc = "start_spawn"
    /\ LET r == spawn_workbook_server(attempt) IN
       task' = [task EXCEPT ![c].child = r.child,
                            ![c].runtime_port = r.runtime_port,
                            ![c].pc = IF r.ok THEN "start_insert" ELSE "done",
                            ![c].result = IF r.ok THEN NoResult ELSE ErrResult(r.err)]
    /\ UNCHANGED <<workbook_servers, lock, mon>>

\* Lines 839-859: take the lock again, store the runtime, return its status.
\* An entry the insert replaces is dropped, which kills its child.
StartInsert(c) ==
    /\ task[c].pc = "start_insert"
    /\ lock = "free"
    /\ workbook_servers' =
           PutKey(workbook_servers, task[c].workbook_id,
                  WorkbookServerProcess(task[c].child, task[c].runtime_port,
                                        task[c].directory, 0))
    /\ task' = [task EXCEPT ![c].child = "none",
                            ![c].pc = "done",
                            ![c].result = OkStatus(TRUE, task[c].runtime_port,
                                                   "Workbook server started")]
    /\ UNCHANGED <<lock, mon>>

\* stop_runtime, lines 895-897 and 920-926: take the lock; without an entry
\* return "not running" (the guard is dropped on return), else take the
\* entry out of the registry.
StopLock(c, workbook_id) ==
    /\ task[c].pc = "idle"
    /\ lock = "free"
    /\ IF workbook_id \in DOMAIN workbook_servers
          THEN /\ lock' = c
               /\ workbook_servers' = RemoveKey(workbook_servers, workbook_id)
               /\ task' = [task EXCEPT ![c] =
                              [IdleTask EXCEPT !.pc = "stop_kill",
                                               !.op = "stop_runtime",
                                               !.workbook_id = workbook_id,
                                               !.child = workbook_servers[workbook_id].child,
                                               !.runtime_port =
                                                   workbook_servers[workbook_id].runtime_port]]
          ELSE /\ UNCHANGED <<lock, workbook_servers>>
               /\ task' = [task EXCEPT ![c] =
                              [IdleTask EXCEPT !.pc = "done",
                                               !.op = "stop_runtime",
                                               !.workbook_id = workbook_id,
                                               !.result = OkStatus(FALSE, 0,
                                                                   "Runtime was not running")]]
    /\ UNCHANGED mon

\* stop_runtime killing the child only when the graceful stop did not succeed.
StopKill_UnlessStopped(c, response) ==
    /\ task[c].pc = "stop_kill"
    /\ lock = c
    /\ response \in send(task[c].child, TRUE)
    /\ lock' = "free"
    /\ task' = [task EXCEPT ![c].child = IF response = "success" THEN @ ELSE "killed",
                            ![c].pc = "done",
                            ![c].result = OkStatus(FALSE, 0, "Runtime stopped")]
    /\ UNCHANGED <<workbook_servers, mon>>

\* Lines 898-917, with the lock held: POST /stop (5 s timeout), whose
\* response is dropped, then kill the child and return.
StopKill(c, response) ==
    /\ task[c].pc = "stop_kill"
    /\ lock = c
    /\ response \in send(task[c].child, TRUE)
    /\ lock' = "free"
    /\ task' = [task EXCEPT ![c].child = "killed",
                            ![c].pc = "done",
                            ![c].result = OkStatus(FALSE, 0, "Runtime stopped")]
    /\ UNCHANGED <<workbook_servers, mon>>

\* delete_workbook, lines 353-355 and 365: take the lock; take the entry out
\* of the registry if there is one, else leave the block (the guard is
\* dropped) and go on to the directory.
DeleteLock(c, id) ==
    /\ task[c].pc = "idle"
    /\ lock = "free"
    /\ IF id \in DOMAIN workbook_servers
          THEN /\ lock' = c
               /\ workbook_servers' = RemoveKey(workbook_servers, id)
               /\ task' = [task EXCEPT ![c] =
                              [IdleTask EXCEPT !.pc = "delete_post",
                                               !.op = "delete_workbook",
                                               !.workbook_id = id,
                                               !.child = workbook_servers[id].child,
                                               !.runtime_port = workbook_servers[id].runtime_port]]
          ELSE /\ UNCHANGED <<lock, workbook_servers>>
               /\ task' = [task EXCEPT ![c] =
                              [IdleTask EXCEPT !.pc = "delete_dir",
                                               !.op = "delete_workbook",
                                               !.workbook_id = id]]
    /\ UNCHANGED mon

\* Lines 356-365, with the lock held: POST /stop (the request has no
\* timeout), whose response is dropped, then kill the child; the guard is
\* dropped at the end of the block.
DeletePost(c, response) ==
    /\ task[c].pc = "delete_post"
    /\ lock = c
    /\ response \in send(task[c].child, FALSE)
    /\ lock' = "free"
    /\ task' = [task EXCEPT ![c].child = "killed", ![c].pc = "delete_dir"]
    /\ UNCHANGED <<workbook_servers, mon>>

\* Lines 367-374, without the lock: remove the workbook's directory; Ok(true)
\* or the error of the removal.
DeleteDir(c, removed) ==
    /\ task[c].pc = "delete_dir"
    /\ task' = [task EXCEPT ![c].pc = "done",
                            ![c].result = IF removed
                                              THEN OkStatus(FALSE, 0, "true")
                                              ELSE ErrResult("Failed to delete workbook")]
    /\ UNCHANGED <<workbook_servers, lock, mon>>

\* get_runtime_status, lines 960-962 and 985: take the lock and look the
\* entry up; without one drop the guard and go on to the default port.
StatusLock(c, workbook_id) ==
    /\ task[c].pc = "idle"
    /\ lock = "free"
    /\ IF workbook_id \in DOMAIN workbook_servers
          THEN /\ lock' = c
               /\ task' = [task EXCEPT ![c] =
                              [IdleTask EXCEPT !.pc = "status_ping",
                                               !.op = "get_runtime_status",
                                               !.workbook_id = workbook_id,
                                               !.runtime_port =
                                                   workbook_servers[workbook_id].runtime_port]]
          ELSE /\ UNCHANGED lock
               /\ task' = [task EXCEPT ![c] =
                              [IdleTask EXCEPT !.pc = "status_fallback",
                                               !.op = "get_runtime_status",
                                               !.workbook_id = workbook_id]]
    /\ UNCHANGED <<workbook_servers, mon>>

\* Lines 963-981, with the lock held: GET /status of the worker (reqwest::get,
\* no timeout); the status is returned and the guard dropped with it.
StatusPing(c, response) ==
    /\ task[c].pc = "status_ping"
    /\ lock = c
    /\ response \in send(workbook_servers[task[c].workbook_id].child, FALSE)
    /\ lock' = "free"
    /\ task' = [task EXCEPT ![c].pc = "done",
                            ![c].result =
                                IF response = "success"
                                    THEN OkStatus(TRUE, task[c].runtime_port, "Runtime is running")
                                    ELSE OkStatus(FALSE, task[c].runtime_port,
                                                  "Runtime is starting...")]
    /\ UNCHANGED <<workbook_servers, mon>>

\* Lines 987-1010, without the lock: GET /status on the default port, where
\* a runtime started outside the supervisor may listen.
StatusFallback(c, response) ==
    /\ task[c].pc = "status_fallback"
    /\ task' = [task EXCEPT ![c].pc = "done",
                            ![c].result =
                                IF response = "success"
                                    THEN OkStatus(TRUE, LegacyPort,
                                                  "Runtime detected on default port")
                                    ELSE OkStatus(FALSE, 0, "Runtime is not running")]
    /\ UNCHANGED <<workbook_servers, lock, mon>>

\* The command's result goes back to the caller; the handler's locals are
\* dropped.
Return(c) ==
    /\ task[c].pc = "done"
    /\ task' = [task EXCEPT ![c] = IdleTask]
    /\ UNCHANGED <<workbook_servers, lock, mon>>

\* A registered worker's process exits on its own.
WorkerExit(workbook_id) ==
    /\ workbook_id \in DOMAIN workbook_servers
    /\ workbook_servers[workbook_id].child = "running"
    /\ workbook_servers' = [workbook_servers EXCEPT ![workbook_id].child = "exited"]
    /\ UNCHANGED <<lock, task, mon>>

\* A registered worker stops answering requests while its process lives on.
WorkerHang(workbook_id) ==
    /\ workbook_id \in DOMAIN workbook_servers
    /\ workbook_servers[workbook_id].child = "running"
    /\ workbook_servers' = [workbook_servers EXCEPT ![workbook_id].child = "hung"]
    /\ UNCHANGED <<lock, task, mon>>

(***************************************************************************)
(* Restart monitor (lib.rs, start_workbook_server_monitor)                 *)
(***************************************************************************)
\* The monitor queueing a restart with the restart count set back to 0.
RestartEntry_Reset(workbook_id, runtime) ==
    <<workbook_id, runtime.directory, 0>>

\* The monitor queueing a restart with the restart count left as it was.
RestartEntry_NoIncrement(workbook_id, runtime) ==
    <<workbook_id, runtime.directory, runtime.restart_count>>

\* Lines 608-612: what the monitor queues for a runtime it will restart.
RestartEntry(workbook_id, runtime) ==
    <<workbook_id, runtime.directory, runtime.restart_count + 1>>

\* Lines 600-603: try_wait() reports an exit and the restart count is below
\* the bound.
NeedsRestart(runtime) ==
    runtime.child = "exited" /\ runtime.restart_count < MAX_RESTARTS

\* The orders in which iter_mut() may visit the ids of `S`.
Orderings(S) ==
    {q \in [1..Cardinality(S) -> S] : \A i, j \in 1..Cardinality(S) : q[i] = q[j] => i = j}

\* Lines 591-635, one tick: under the lock, collect the runtimes to restart
\* and remove them from the registry; runtimes over the bound are logged and
\* left where they are.
MonitorScan ==
    /\ mon.pc = "sleep"
    /\ lock = "free"
    /\ LET dead == {id \in DOMAIN workbook_servers : NeedsRestart(workbook_servers[id])} IN
       /\ \E order \in Orderings(dead) :
             mon' = [mon EXCEPT !.to_restart =
                                    [i \in 1..Len(order) |->
                                        RestartEntry(order[i], workbook_servers[order[i]])],
                                !.pc = IF dead = {} THEN "sleep" ELSE "restart"]
       /\ workbook_servers' = [id \in DOMAIN workbook_servers \ dead |-> workbook_servers[id]]
    /\ UNCHANGED <<lock, task>>

\* The monitor queueing a failed restart again, with the next restart count,
\* while the bound allows.
MonitorSpawn_Requeue(attempt) ==
    /\ mon.pc = "restart"
    /\ LET r == spawn_workbook_server(attempt)
           entry == Head(mon.to_restart) IN
       IF r.ok
           THEN mon' = [mon EXCEPT !.pc = "insert",
                                   !.child = r.child,
                                   !.runtime_port = r.runtime_port]
           ELSE IF entry[3] < MAX_RESTARTS
               THEN mon' = [mon EXCEPT !.to_restart =
                                Append(Tail(mon.to_restart), <<entry[1], entry[2], entry[3] + 1>>)]
               ELSE mon' = [mon EXCEPT !.pc = IF Len(mon.to_restart) > 1 THEN "restart" ELSE "sleep",
                                       !.to_restart = Tail(mon.to_restart)]
    /\ UNCHANGED <<workbook_servers, lock, task>>

\* Lines 638-644 and 658-660, without the lock: after the 2 s delay, spawn
\* and handshake for the first queued runtime; a failure is logged and the
\* loop goes on to the next one.
MonitorSpawn(attempt) ==
    /\ mon.pc = "restart"
    /\ LET r == spawn_workbook_server(attempt) IN
       IF r.ok
           THEN mon' = [mon EXCEPT !.pc = "insert",
                                   !.child = r.child,
                                   !.runtime_port = r.runtime_port]
           ELSE mon' = [mon EXCEPT !.pc = IF Len(mon.to_restart) > 1 THEN "restart" ELSE "sleep",
                                   !.to_restart = Tail(mon.to_restart)]
    /\ UNCHANGED <<workbook_servers, lock, task>>

\* Lines 645-657: take the lock and store the restarted runtime.
MonitorInsert ==
    /\ mon.pc = "insert"
    /\ lock = "free"
    /\ LET entry == Head(mon.to_restart) IN
       workbook_servers' =
           PutKey(workbook_servers, entry[1],
                  WorkbookServerProcess(mon.child, mon.runtime_port, entry[2], entry[3]))
    /\ mon' = [mon EXCEPT !.pc = IF Len(mon.to_restart) > 1 THEN "restart" ELSE "sleep",
                          !.to_restart = Tail(mon.to_restart),
                          !.child = "none",
                          !.runtime_port = 0]
    /\ UNCHANGED <<lock, task>>

(***************************************************************************)
(* JobRegistry (jobs.rs)                                                   *)
(***************************************************************************)
\* Session ids of the event feed.
Sessions == {"s1", "s2"}

JobStatus == {"Running", "Completed", "Failed", "Cancelled"}

\* The retention window of cleanup_old, in milliseconds.
RETENTION_MS == 60 * 60 * 1000

\* SystemTime::now() as milliseconds since the epoch.  The model's clock
\* starts one retention window after the epoch and advances by one window.
Now == RETENTION_MS * (clock + 1)

\* The atomic counters (AtomicU64, AtomicUsize) hold integers modulo 2^64.
\* A value v is written v when v < 2^63 and v - 2^64 otherwise, so that
\* fetch_add and fetch_sub are +1 and -1 and "load() > 0" is "not zero".
fetch_add(counter) == counter + 1
fetch_sub(counter) == counter - 1

\* format!("job_{}_{}", session_id, now)
JobId(session_id, now) == <<session_id, now>>

\* JobInfo::new
JobInfo_new(workbook_id, session_id, description, now) ==
    [id |-> JobId(session_id, now),
     workbook_id |-> workbook_id,
     session_id |-> session_id,
     status |-> "Running",
     description |-> description,
     started_at |-> now,
     updated_at |-> now]

\* JobInfo::is_active
is_active(job) == job.status = "Running"

\* JobRegistry::new
JobRegistryInit ==
    /\ jobs = << >>
    /\ active_count = 0

\* JobRegistry::register
register(workbook_id, session_id, description) ==
    LET job == JobInfo_new(workbook_id, session_id, description, Now) IN
    /\ jobs' = PutKey(jobs, job.id, job)
    /\ active_count' = fetch_add(active_count)

\* JobRegistry::update_status
update_status(job_id, status) ==
    IF job_id \in DOMAIN jobs
        THEN LET was_active == is_active(jobs[job_id])
                 job == [jobs[job_id] EXCEPT !.status = status, !.updated_at = Now] IN
             /\ jobs' = [jobs EXCEPT ![job_id] = job]
             /\ active_count' = IF was_active /\ ~is_active(job)
                                    THEN fetch_sub(active_count)
                                    ELSE active_count
        ELSE UNCHANGED <<jobs, active_count>>

\* JobRegistry::complete, fail, cancel
complete(job_id) == update_status(job_id, "Completed")
fail(job_id) == update_status(job_id, "Failed")
cancel(job_id) == update_status(job_id, "Cancelled")

\* The stored jobs, in no order (HashMap::values).
values == {jobs[id] : id \in DOMAIN jobs}

\* JobRegistry::find_by_session: the jobs `find` may return, whichever the
\* map's iteration reaches first; none when the set is empty.
find_by_session(session_id) == {j \in values : j.session_id = session_id}

\* JobRegistry::find_active_by_session, likewise.
find_active_by_session(session_id) ==
    {j \in values : j.session_id = session_id /\ is_active(j)}

\* JobRegistry::has_active_jobs
has_active_jobs(workbook_id) ==
    \E j \in values : j.workbook_id = workbook_id /\ is_active(j)

\* JobRegistry::list_active
list_active == {j \in values : is_active(j)}

\* The predicate of cleanup_old's retain.
Retained(job, one_hour_ago) == is_active(job) \/ job.updated_at > one_hour_ago

\* JobRegistry::cleanup_old
cleanup_old ==
    LET one_hour_ago == Now - RETENTION_MS IN
    /\ jobs' = [id \in {i \in DOMAIN jobs : Retained(jobs[i], one_hour_ago)} |-> jobs[id]]
    /\ UNCHANGED active_count

\* The clock moves on.
Tick ==
    /\ clock < MaxTicks
    /\ clock' = clock + 1

(***************************************************************************)
(* Session events (jobs.rs SessionEvent; lib.rs start_sse_job_listener,    *)
(* handle_session_event, set_active_workbook)                              *)
(***************************************************************************)
\* Status strings of the feed: the nine the classification names, and
\* others (another word, another case, the empty string).
StatusStrings ==
    {"running", "pending", "streaming", "completed", "idle", "done",
     "failed", "error", "cancelled", "busy", "Running", ""}

\* SessionEvent::is_running_status, is_completed_status, is_failed_status
is_running_status(status) == status \in {"running", "pending", "streaming"}
\* The completed bucket taking "cancelled" as well.
is_completed_status_Cancelled(status) == status \in {"completed", "idle", "done", "cancelled"}
is_completed_status(status) == status \in {"completed", "idle", "done"}
is_failed_status(status) == status \in {"failed", "error", "cancelled"}

\* enum SessionEvent
SessionUpdated(session_id, status) ==
    [type |-> "session.updated", session_id |-> session_id, status |-> status]
SessionStatus(session_id, status) ==
    [type |-> "session.status", session_id |-> session_id, status |-> Some(status)]
MessagePartUpdated(session_id) ==
    [type |-> "message.part.updated", session_id |-> session_id, status |-> None]
Unknown == [type |-> "unknown", session_id |-> "", status |-> None]

SessionEvents ==
    {SessionStatus(s, st) : s \in Sessions, st \in StatusStrings}
        \cup {SessionUpdated(s, Some(st)) : s \in Sessions, st \in StatusStrings}
        \cup {SessionUpdated(s, None) : s \in Sessions}
        \cup {MessagePartUpdated(s) : s \in Sessions}
        \cup {Unknown}

\* One record of the event stream (the text up to a blank line): whether it
\* has a "data: " line and what that line holds: the JSON of an event, or
\* text that does not parse as a SessionEvent.
DataRecord(event) == [data |-> TRUE, parses |-> TRUE, event |-> event]
GarbageRecord == [data |-> TRUE, parses |-> FALSE, event |-> Unknown]
CommentRecord == [data |-> FALSE, parses |-> FALSE, event |-> Unknown]
SseRecords == {DataRecord(ev) : ev \in SessionEvents} \cup {GarbageRecord, CommentRecord}

\* Lines 704-707: the event the listener hands to handle_session_event, if any.
parse_record(record) ==
    IF record.data /\ record.parses THEN Some(record.event) ELSE None

\* Line 749: active_workbook_id.clone().unwrap_or_default()
unwrap_or_default(option) == IF option = None THEN "" ELSE option[1]

\* The running branch registering whether or not the session has a job.
already_tracked_Never(session_id) == FALSE

\* Line 747: the session has an active job already.
already_tracked(session_id) == find_active_by_session(session_id) # {}

\* Lines 762-782: the completed and failed branches: some job of the
\* session, whichever find_by_session returns, is moved to `status`.
finish_session(session_id, status) ==
    IF find_by_session(session_id) = {}
        THEN UNCHANGED <<jobs, active_count>>
        ELSE \E job \in find_by_session(session_id) : update_status(job.id, status)

\* Lines 742-783: the SessionStatus arm, under the lock.
handle_session_status(session_id, status) ==
    /\ lock = "free"
    /\ IF is_running_status(status)
          THEN IF ~already_tracked(session_id)
                   THEN register(unwrap_or_default(active_workbook_id), session_id,
                                 "AI processing...")
                   ELSE UNCHANGED <<jobs, active_count>>
          ELSE IF is_completed_status(status)
                   THEN finish_session(session_id, "Completed")
                   ELSE IF is_failed_status(status)
                            THEN finish_session(session_id, "Failed")
                            ELSE UNCHANGED <<jobs, active_count>>

\* The re-dispatch carrying a fixed status instead of the event's.
redispatch_status_Running(status) == "running"

\* Line 787: the status the re-dispatched SessionStatus event carries.
redispatch_status(status) == status

\* handle_session_event treating message.part.updated as a running status.
handle_session_event_PartAsRunning(event) ==
    CASE event.type = "session.status" ->
             handle_session_status(event.session_id, event.status[1])
      [] event.type = "session.updated" ->
             IF event.status # None
                 THEN handle_session_status(event.session_id,
                                            redispatch_status(event.status[1]))
                 ELSE UNCHANGED <<jobs, active_count>>
      [] event.type = "message.part.updated" ->
             handle_session_status(event.session_id, "running")
      [] OTHER -> UNCHANGED <<jobs, active_count>>

\* handle_session_event
handle_session_event(event) ==
    CASE event.type = "session.status" ->
             handle_session_status(event.session_id, event.status[1])
      [] event.type = "session.updated" ->
             IF event.status # None
                 THEN handle_session_status(event.session_id,
                                            redispatch_status(event.status[1]))
                 ELSE UNCHANGED <<jobs, active_count>>
      [] OTHER -> UNCHANGED <<jobs, active_count>>

\* Lines 699-711: the listener takes one record off the stream and handles
\* the event it parses to.
sse_record(record) ==
    IF parse_record(record) # None
        THEN handle_session_event(parse_record(record)[1])
        ELSE UNCHANGED <<jobs, active_count>>

(***************************************************************************)
(* The event-stream listener (lib.rs, start_sse_job_listener)              *)
(***************************************************************************)
\* The listener task as start_sse_job_listener spawns it: in its first
\* sleep, with no connection.
\*   pc       "startup" (the 5 s sleep), "connecting" (the request is sent,
\*            the response awaited), "reading" (stream.next() awaited),
\*            "parsing" (the loop over the buffer), "delay" (the 3 s sleep);
\*   stream   the bytes the server sends on this connection;
\*   wire     the bytes of `stream` not yet received;
\*   buffer   the characters received and not yet consumed;
\*   handled  the records taken off the buffer on this connection, in order.
NewListener ==
    [pc |-> "startup", stream |-> << >>, wire |-> << >>, buffer |-> << >>, handled |-> << >>]

\* The bytes of a stream, as the model cuts them: a line feed, the two bytes
\* of a two-byte UTF-8 character (U+00E9), and runs of ASCII bytes that
\* stay together: single letters, the closing `"}` of an event, an
\* `event:` line, and the text from `data: ` up to the opening quote of the
\* session id.  Chunk boundaries fall between any two of them.
LF == "\n"
DataPrefix(status) ==
    "data: {\"type\":\"session.status\",\"status\":\"" \o status \o "\",\"sessionId\":\""
JsonClose == "\"}"
EventLine == "event: status"
StreamStatuses == {"running", "completed"}
DataPrefixes == {DataPrefix(status) : status \in StreamStatuses}

\* Characters of a decoded String: the ASCII runs as they are, U+00E9, and
\* U+FFFD, the replacement character.
TextChars == {"s", "1", "U+00E9", "U+FFFD"}

\* String::from_utf8_lossy on the bytes of one chunk: a complete two-byte
\* sequence is its character, a lead byte without its continuation byte
\* and a continuation byte without its lead byte are U+FFFD each.
RECURSIVE from_utf8_lossy(_)
from_utf8_lossy(bytes) ==
    IF bytes = << >>
        THEN << >>
        ELSE IF Head(bytes) = "0xC3"
            THEN IF Len(bytes) >= 2 /\ bytes[2] = "0xA9"
                     THEN <<"U+00E9">> \o from_utf8_lossy(SubSeq(bytes, 3, Len(bytes)))
                     ELSE <<"U+FFFD">> \o from_utf8_lossy(Tail(bytes))
            ELSE IF Head(bytes) = "0xA9"
                THEN <<"U+FFFD">> \o from_utf8_lossy(Tail(bytes))
                ELSE <<Head(bytes)>> \o from_utf8_lossy(Tail(bytes))

\* buffer.find("\n\n"): the position of the first blank line, 0 for None.
find_blank_line(buffer) ==
    LET at == {i \in 1..(Len(buffer) - 1) : buffer[i] = LF /\ buffer[i + 1] = LF} IN
    IF at = {} THEN 0 ELSE CHOOSE i \in at : \A j \in at : i <= j

\* str::lines
RECURSIVE lines(_)
lines(text) ==
    LET at == {i \in 1..Len(text) : text[i] = LF} IN
    IF text = << >>
        THEN << >>
        ELSE IF at = {}
            THEN <<text>>
            ELSE LET i == CHOOSE i \in at : \A j \in at : i <= j IN
                 <<SubSeq(text, 1, i - 1)>> \o lines(SubSeq(text, i + 1, Len(text)))

\* Line 704: the first line that starts with "data: ", if any.
data_line(event_str) ==
    LET ls == lines(event_str)
        at == {i \in 1..Len(ls) : ls[i] # << >> /\ ls[i][1] \in DataPrefixes} IN
    IF at = {} THEN None ELSE Some(ls[CHOOSE i \in at : \A j \in at : i <= j])

\* The String of a sequence of characters.
RECURSIVE concat(_)
concat(chars) == IF chars = << >> THEN "" ELSE Head(chars) \o concat(Tail(chars))

\* Lines 705-707: serde_json::from_str::<SessionEvent> on the text after
\* "data: ": an event when the text is a complete object, an error
\* otherwise.  U+FFFD inside a JSON string is a character like any other.
from_str_SessionEvent(line) ==
    IF /\ Len(line) >= 2
       /\ line[Len(line)] = JsonClose
       /\ \A i \in 2..(Len(line) - 1) : line[i] \in TextChars
        THEN Some(SessionStatus(concat(SubSeq(line, 2, Len(line) - 1)),
                                CHOOSE status \in StreamStatuses : DataPrefix(status) = line[1]))
        ELSE None

\* Lines 704-710, the two nested `if let`: what a record is to the listener
\* (see DataRecord, GarbageRecord, CommentRecord), given its data line.
record_of(line) ==
    IF line = None
        THEN CommentRecord
        ELSE IF from_str_SessionEvent(line[1]) = None
            THEN GarbageRecord
            ELSE DataRecord(from_str_SessionEvent(line[1])[1])

\* Lines 704-710 on one record of the buffer.
decode_record(event_str) == record_of(data_line(event_str))

\* The listener ending for good when the server closes the stream.
after_stream_StopOnEnd(how) == IF how = "end" THEN "terminated" ELSE "delay"

\* Lines 713-720 and 729-730: after a stream error (break) or the end of
\* the stream the task goes on to the sleep before the next connection.
after_stream(how) == "delay"

\* Lines 671-681 and 730: a sleep is over (the first one of 5 s, or the 3 s
\* before a reconnection) and the request is sent.
ListenerConnect ==
    /\ sse.pc \in {"startup", "delay"}
    /\ sse' = [NewListener EXCEPT !.pc = "connecting"]
    /\ UNCHANGED <<jobs, active_count>>

\* Lines 682-691 and 721-730: the request fails, is answered with another
\* status than success, or is answered with success and the stream opens
\* with an empty buffer.
ListenerResponse(outcome, stream) ==
    /\ sse.pc = "connecting"
    /\ IF outcome = "success"
          THEN sse' = [pc |-> "reading", stream |-> stream, wire |-> stream,
                       buffer |-> << >>, handled |-> << >>]
          ELSE sse' = [NewListener EXCEPT !.pc = "delay"]
    /\ UNCHANGED <<jobs, active_count>>

\* Lines 693-696: the next chunk, the first n bytes still on the wire, is
\* decoded and pushed onto the buffer.
ListenerChunk(n) ==
    /\ sse.pc = "reading"
    /\ n \in 1..Len(sse.wire)
    /\ sse' = [sse EXCEPT !.pc = "parsing",
                          !.wire = SubSeq(sse.wire, n + 1, Len(sse.wire)),
                          !.buffer = sse.buffer \o from_utf8_lossy(SubSeq(sse.wire, 1, n))]
    /\ UNCHANGED <<jobs, active_count>>

\* Lines 699-710, one turn of the inner loop: the text up to the first blank
\* line is taken off the buffer, decoded and, when it holds an event,
\* handled (handle_session_event is awaited before the loop goes on).
ListenerRecord ==
    /\ sse.pc = "parsing"
    /\ find_blank_line(sse.buffer) # 0
    /\ \E event_end \in {find_blank_line(sse.buffer)} :
       \E line \in {data_line(SubSeq(sse.buffer, 1, event_end - 1))} :
       \E record \in {record_of(line)} :
           /\ sse' = [sse EXCEPT !.buffer = SubSeq(sse.buffer, event_end + 2, Len(sse.buffer)),
                                 !.handled = Append(sse.handled, record)]
           /\ sse_record(record)

\* Line 699: no blank line is left in the buffer; back to stream.next().
ListenerParsed ==
    /\ sse.pc = "parsing"
    /\ find_blank_line(sse.buffer) = 0
    /\ sse' = [sse EXCEPT !.pc = "reading"]
    /\ UNCHANGED <<jobs, active_count>>

\* Lines 693 and 713-720: the stream ends once the server has sent all its
\* bytes, or breaks with an error at any point; the buffer goes with it.
ListenerStreamEnd(how) ==
    /\ sse.pc = "reading"
    /\ how = "end" => sse.wire = << >>
    /\ sse' = [NewListener EXCEPT !.pc = after_stream(how)]
    /\ UNCHANGED <<jobs, active_count>>

\* set_active_workbook, lines 880-883.
set_active_workbook(workbook_id) ==
    /\ lock = "free"
    /\ active_workbook_id' = Some(workbook_id)

(***************************************************************************)
(* The OpenCode server's restart (lib.rs, restart_server,                  *)
(* restart_server_with_dir and the set_active_workbook command)            *)
(***************************************************************************)
\* get_hands_dir and get_workbook_dir, lines 87-98: the workbook's directory
\* under the home directory's .hands; an error where the home directory is
\* not known (`home` false).
get_workbook_dir(id, home) == IF home THEN Some("~/.hands/" \o id) ELSE None

\* struct HealthCheck inside the Ok of a handler's result.
HealthCheck(healthy, message) == [status |-> "ok", healthy |-> healthy, message |-> message]

\* The outcomes of start_opencode_server followed by wait_for_server:
\* the server answers within the 30 s, it is spawned and does not answer,
\* or it cannot be spawned.
RestartOutcomes == {"healthy", "unhealthy", "failed"}

\* The guard kept across the call of the inner function.
restart_server_guard_Kept(c) == c

\* restart_server, line 1409: the holder of the lock once the active
\* workbook is read, where the inner function is called: drop(state_guard).
restart_server_guard(c) == "free"

\* restart_server, lines 1393-1409: take the lock, read the active workbook
\* and its directory (from its registry entry, else computed; the error of
\* the computation returns, which drops the guard), and drop the guard.
RestartRead(c, home) ==
    /\ task[c].pc = "idle"
    /\ lock = "free"
    /\ LET id == unwrap_or_default(active_workbook_id)
           dir == IF active_workbook_id = None
                      THEN None
                      ELSE IF id \in DOMAIN workbook_servers
                               THEN Some(workbook_servers[id].directory)
                               ELSE get_workbook_dir(id, home)
       IN  IF active_workbook_id # None /\ dir = None
               THEN /\ lock' = "free"
                    /\ task' = [task EXCEPT ![c] =
                                   [IdleTask EXCEPT !.pc = "done",
                                                    !.op = "restart_server",
                                                    !.workbook_id = id,
                                                    !.result = ErrResult("Could not find home directory")]]
               ELSE /\ lock' = restart_server_guard(c)
                    /\ task' = [task EXCEPT ![c] =
                                   [IdleTask EXCEPT !.pc = IF dir = None THEN "restart_legacy"
                                                                         ELSE "restart_with_dir",
                                                    !.op = "restart_server",
                                                    !.workbook_id = id,
                                                    !.directory = unwrap_or_default(dir)]]
    /\ UNCHANGED <<workbook_servers, mon, server, active_workbook_id>>

\* The set_active_workbook command, lines 870-883: compute the directory
\* before the lock is taken and return the error if there is none; else
\* record the active workbook in a block that takes and drops the lock, and
\* go on to restart_server_with_dir.
SetActiveWorkbook(c, workbook_id, home, exists) ==
    /\ task[c].pc = "idle"
    /\ LET dir == get_workbook_dir(workbook_id, home)
       IN  IF dir = None \/ ~exists
               THEN /\ task' = [task EXCEPT ![c] =
                                   [IdleTask EXCEPT !.pc = "done",
                                                    !.op = "set_active_workbook",
                                                    !.workbook_id = workbook_id,
                                                    !.result =
                                                        IF dir = None
                                                            THEN ErrResult("Could not find home directory")
                                                            ELSE ErrResult("Workbook directory does not exist")]]
                    /\ UNCHANGED <<lock, active_workbook_id>>
               ELSE /\ set_active_workbook(workbook_id)
                    /\ task' = [task EXCEPT ![c] =
                                   [IdleTask EXCEPT !.pc = "restart_with_dir",
                                                    !.op = "set_active_workbook",
                                                    !.workbook_id = workbook_id,
                                                    !.directory = dir[1]]]
                    /\ UNCHANGED lock
    /\ UNCHANGED <<workbook_servers, mon, server>>

\* restart_server_with_dir, line 1347, and the branch of restart_server
\* without an active workbook, line 1416: take the lock.
RestartLock(c) ==
    /\ task[c].pc \in {"restart_with_dir", "restart_legacy"}
    /\ lock = "free"
    /\ lock' = c
    /\ task' = [task EXCEPT ![c].pc = "restart_start"]
    /\ UNCHANGED <<workbook_servers, mon, server, active_workbook_id>>

\* Lines 1349-1383 and 1418-1446, with the lock held: kill the server there
\* is, start a new one in the directory and wait for it to answer; the
\* HealthCheck is returned and the guard dropped with it.
RestartStart(c, outcome) ==
    /\ task[c].pc = "restart_start"
    /\ lock = c
    /\ server' = IF outcome = "failed"
                     THEN IF server = "none" THEN "none" ELSE "killed"
                     ELSE "running"
    /\ lock' = "free"
    /\ task' = [task EXCEPT ![c].pc = "done",
                            ![c].result =
                                IF outcome = "healthy"
                                    THEN HealthCheck(TRUE,
                                             IF task[c].directory = ""
                                                 THEN "Server restarted successfully (no workbook)"
                                                 ELSE "Server restarted successfully")
                                    ELSE IF outcome = "unhealthy"
                                             THEN HealthCheck(FALSE, "Server started but health check failed")
                                             ELSE HealthCheck(FALSE, "Failed to start Hands agent server")]
    /\ UNCHANGED <<workbook_servers, mon, active_workbook_id>>

\* No close_workbook_window call is running.
\* `calls` lists, in the order the handler makes them, the calls of the last
\* invocation that act on the runtime: unregister_window, remove (which
\* releases the port), kill.
IdleCloser ==
    [pc |-> "idle", workbook_id |-> "", force |-> FALSE, killed |-> {}, result |-> None,
     calls |-> << >>]

\* AppState as constructed in run(), and the clock at the start.
AppInit ==
    /\ JobRegistryInit
    /\ active_workbook_id = None
    /\ clock = 0
    /\ closer = IdleCloser
    /\ sse = NewListener
    /\ server = "none"

(***************************************************************************)
(* Runtime job counters (runtime_manager.rs) and the window-close handler  *)
(* (lib.rs, close_workbook_window)                                         *)
(***************************************************************************)
\* RuntimeInfo::has_active_jobs: active_jobs.load() > 0
runtime_has_active_jobs(runtime) == runtime.active_jobs # 0

\* RuntimeInfo::increment_jobs / decrement_jobs on the runtime of a workbook
\* (RuntimeManager::get(workbook_id), then the call).
increment_jobs(workbook_id) ==
    /\ workbook_id \in DOMAIN runtimes
    /\ runtimes' = [runtimes EXCEPT ![workbook_id].active_jobs = fetch_add(@)]
    /\ UNCHANGED <<allocated_ports, next_port, rm_call>>
decrement_jobs(workbook_id) ==
    /\ workbook_id \in DOMAIN runtimes
    /\ runtimes' = [runtimes EXCEPT ![workbook_id].active_jobs = fetch_sub(@)]
    /\ UNCHANGED <<allocated_ports, next_port, rm_call>>

\* window_manager::window_label, and line 1652.
window_label(workbook_id) == "workbook_" \o workbook_id

\* The check before the window is closed passing whatever the job counter.
CloseCheck_NoJobCheck(workbook_id, force) ==
    /\ closer.pc = "idle"
    /\ lock = "free"
    /\ closer' = [IdleCloser EXCEPT !.pc = "close_window",
                                    !.workbook_id = workbook_id,
                                    !.force = force]
    /\ UNCHANGED rmVars

\* Lines 1654-1662: unless forced, look under the lock whether the runtime
\* has active jobs and return Ok(false) when it has.
CloseCheck(workbook_id, force) ==
    /\ closer.pc = "idle"
    /\ lock = "free"
    /\ IF /\ ~force
          /\ workbook_id \in DOMAIN runtimes
          /\ runtime_has_active_jobs(runtimes[workbook_id])
          THEN closer' = [IdleCloser EXCEPT !.pc = "done",
                                            !.workbook_id = workbook_id,
                                            !.force = force,
                                            !.result = Some(FALSE)]
          ELSE closer' = [IdleCloser EXCEPT !.pc = "close_window",
                                            !.workbook_id = workbook_id,
                                            !.force = force]
    /\ UNCHANGED rmVars

\* The teardown test skipping the job counter.
teardown_NoJobCheck(no_windows_left, runtime) == no_windows_left

\* Line 1674: no windows left and no active jobs (a runtime that is not
\* there has none).
teardown(no_windows_left, runtime) ==
    no_windows_left /\ ~(IF runtime = None THEN FALSE ELSE runtime_has_active_jobs(runtime[1]))

\* Lines 1664-1682: close the window (an error returns at once); then under
\* the lock unregister the window and, when the runtime is to be torn down,
\* remove it (which releases its port) and kill its process.
CloseUnregister(window_closed) ==
    /\ closer.pc = "close_window"
    /\ IF ~window_closed
          THEN /\ closer' = [closer EXCEPT !.pc = "done", !.result = None]
               /\ UNCHANGED rmVars
          ELSE LET workbook_id == closer.workbook_id
                   present == workbook_id \in DOMAIN runtimes
                   unregistered ==
                       IF present
                           THEN [runtimes EXCEPT ![workbook_id].windows =
                                                     @ \ {window_label(workbook_id)}]
                           ELSE runtimes
                   no_windows_left == present /\ unregistered[workbook_id].windows = {}
                   runtime == IF present THEN Some(unregistered[workbook_id]) ELSE None IN
               /\ lock = "free"
               /\ IF teardown(no_windows_left, runtime) /\ present
                     THEN /\ runtimes' = RemoveKey(unregistered, workbook_id)
                          /\ allocated_ports' =
                                 allocated_ports \ {unregistered[workbook_id].runtime_port}
                          /\ rm_call' = [op |-> "remove", ret |-> runtime]
                          /\ closer' = [closer EXCEPT !.pc = "done",
                                                      !.killed = {workbook_id},
                                                      !.result = Some(TRUE),
                                                      !.calls = <<"unregister_window",
                                                                  "remove", "kill">>]
                     ELSE /\ runtimes' = unregistered
                          /\ rm_call' = [op |-> "unregister_window",
                                         ret |-> Some(no_windows_left)]
                          /\ closer' = [closer EXCEPT !.pc = "done", !.result = Some(TRUE),
                                                      !.calls = <<"unregister_window">>]
                          /\ UNCHANGED allocated_ports
               /\ UNCHANGED next_port

\* The command's result goes back to the caller.
CloseReturn ==
    /\ closer.pc = "done"
    /\ closer' = IdleCloser
    /\ UNCHANGED rmVars

(***************************************************************************)
(* PortSpec: any sequence of allocate_port, release_port, insert, remove   *)
(* on a new manager.                                                       *)
(***************************************************************************)
\* Ports a caller may pass: the range and one u16 outside it.
PortInputs == RuntimePorts \cup {LegacyPort}

RrIdle == [phase |-> "off", n |-> 0, warm |-> 0, returned |-> << >>]

PortInit == RmInit /\ rr = RrIdle /\ SupInit /\ AppInit

PortAllocate == allocate_port /\ UNCHANGED <<rr, supVars, appVars>>
PortRelease == \E port \in PortInputs : release_port(port) /\ UNCHANGED <<rr, supVars, appVars>>
PortInsert == \E w \in Workbooks, port \in PortInputs : insert(w, RuntimeInfo(port)) /\ UNCHANGED <<rr, supVars, appVars>>
PortRemove == \E w \in Workbooks : remove(w) /\ UNCHANGED <<rr, supVars, appVars>>

PortNext == PortAllocate \/ PortRelease \/ PortInsert \/ PortRemove

PortSpec == PortInit /\ [][PortNext]_vars

(***************************************************************************)
(* EntrySpec: any sequence of insert and remove on a new manager.          *)
(***************************************************************************)
EntryNext == PortInsert \/ PortRemove

EntrySpec == PortInit /\ [][EntryNext]_vars

(***************************************************************************)
(* WinSpec: runtimes come and go, windows register and unregister.         *)
(***************************************************************************)
WinRegister == \E w \in Workbooks, l \in WindowLabels : register_window(w, l) /\ UNCHANGED <<rr, supVars, appVars>>
WinUnregister == \E w \in Workbooks, l \in WindowLabels : unregister_window(w, l) /\ UNCHANGED <<rr, supVars, appVars>>

WinNext == PortInsert \/ PortRemove \/ WinRegister \/ WinUnregister

WinSpec == PortInit /\ [][WinNext]_vars

(***************************************************************************)
(* RRSpec: the round-robin scenario.  On a new manager, after `warm`       *)
(* allocate/release pairs that move the cursor, allocate n ports, release  *)
(* all of them (in any order), allocate n again.  rr.returned is the       *)
(* sequence of values the scenario's allocate_port calls returned.         *)
(***************************************************************************)
RRInit ==
    /\ RmInit
    /\ SupInit
    /\ AppInit
    /\ \E n \in 1..NumPorts, warm \in 0..(NumPorts - 1) :
           rr = [phase |-> "warmup", n |-> n, warm |-> warm, returned |-> << >>]

RRWarmAllocate ==
    /\ rr.phase = "warmup" /\ rr.warm > 0 /\ allocated_ports = {}
    /\ allocate_port
    /\ rr' = [rr EXCEPT !.warm = @ - 1]
    /\ UNCHANGED <<supVars, appVars>>

RRWarmRelease ==
    /\ rr.phase = "warmup" /\ allocated_ports # {}
    /\ \E port \in allocated_ports : release_port(port)
    /\ UNCHANGED <<rr, supVars, appVars>>

RRFirst ==
    /\ \/ rr.phase = "warmup" /\ rr.warm = 0 /\ allocated_ports = {}
       \/ rr.phase = "first"
    /\ allocate_port
    /\ rr' = [rr EXCEPT !.returned = Append(@, rm_call'.ret),
                        !.phase = IF Len(rr.returned) + 1 = rr.n THEN "release" ELSE "first"]
    /\ UNCHANGED <<supVars, appVars>>

RRRelease ==
    /\ rr.phase = "release"
    /\ \E port \in allocated_ports : release_port(port)
    /\ rr' = [rr EXCEPT !.phase = IF allocated_ports' = {} THEN "second" ELSE "release"]
    /\ UNCHANGED <<supVars, appVars>>

RRSecond ==
    /\ rr.phase = "second"
    /\ allocate_port
    /\ rr' = [rr EXCEPT !.returned = Append(@, rm_call'.ret),
                        !.phase = IF Len(rr.returned) + 1 = 2 * rr.n THEN "done" ELSE "second"]
    /\ UNCHANGED <<supVars, appVars>>

RRNext == RRWarmAllocate \/ RRWarmRelease \/ RRFirst \/ RRRelease \/ RRSecond

RRSpec == RRInit /\ [][RRNext]_vars

(***************************************************************************)
(* Spec: the supervisor.  One command handler at a time (start or stop of  *)
(* any workbook), the restart monitor and workers that exit.               *)
(***************************************************************************)
UI == "ui-1"

Init == RmInit /\ rr = RrIdle /\ SupInit /\ AppInit

Start == \E w \in Workbooks, d \in Directories : StartLock(UI, w, d) /\ UNCHANGED <<rmVars, rr, appVars>>
StopExisting == StartStopExisting(UI) /\ UNCHANGED <<rmVars, rr, appVars>>
Unlock == StartUnlock(UI) /\ UNCHANGED <<rmVars, rr, appVars>>
Spawn == \E attempt \in SupAttempts : StartSpawn(UI, attempt) /\ UNCHANGED <<rmVars, rr, appVars>>
Insert == StartInsert(UI) /\ UNCHANGED <<rmVars, rr, appVars>>
Stop == \E w \in Workbooks : StopLock(UI, w) /\ UNCHANGED <<rmVars, rr, appVars>>
StopResponses == {"success", "error_status", "refused", "timeout"}
Kill == \E response \in StopResponses : StopKill(UI, response) /\ UNCHANGED <<rmVars, rr, appVars>>
Returned == Return(UI) /\ UNCHANGED <<rmVars, rr, appVars>>
Exit == \E w \in Workbooks : WorkerExit(w) /\ UNCHANGED <<rmVars, rr, appVars>>
Scan == MonitorScan /\ UNCHANGED <<rmVars, rr, appVars>>
Respawn == \E attempt \in SupAttempts : MonitorSpawn(attempt) /\ UNCHANGED <<rmVars, rr, appVars>>
Reinsert == MonitorInsert /\ UNCHANGED <<rmVars, rr, appVars>>

Next ==
    \/ Start \/ StopExisting \/ Unlock \/ Spawn \/ Insert
    \/ Stop \/ Kill \/ Returned
    \/ Exit
    \/ Scan \/ Respawn \/ Reinsert

Spec == Init /\ [][Next]_vars

(***************************************************************************)
(* LiveSpec: the supervisor under the scheduling the runtime gives: a      *)
(* handler that holds the lock goes on (its waits are bounded), the        *)
(* monitor's spawn ends (60 s timeout), and a task waiting for the lock    *)
(* gets it (tokio's Mutex queues its waiters).  Workers print a ready      *)
(* message or none.                                                        *)
(***************************************************************************)
LiveAttempts ==
    {Attempt(TRUE, <<ReadyLine(55001)>>, "hang"),
     Attempt(TRUE, <<TextLine>>, "eof")}

LiveSpawn == \E attempt \in LiveAttempts : StartSpawn(UI, attempt) /\ UNCHANGED <<rmVars, rr, appVars>>
LiveRespawn == \E attempt \in LiveAttempts : MonitorSpawn(attempt) /\ UNCHANGED <<rmVars, rr, appVars>>

LiveNext ==
    \/ Start \/ StopExisting \/ Unlock \/ LiveSpawn \/ Insert
    \/ Stop \/ Kill \/ Returned
    \/ Exit
    \/ Scan \/ LiveRespawn \/ Reinsert

LiveSpec ==
    /\ Init
    /\ [][LiveNext]_vars
    /\ WF_vars(StopExisting)
    /\ WF_vars(Unlock)
    /\ WF_vars(Kill)
    /\ WF_vars(LiveRespawn)
    /\ SF_vars(Reinsert)

(***************************************************************************)
(* HandshakeSpec: manual starts, one after the other, of workers printing  *)
(* any output over WorkerLines.                                            *)
(***************************************************************************)
HandshakeSpawn == \E attempt \in AllAttempts : StartSpawn(UI, attempt) /\ UNCHANGED <<rmVars, rr, appVars>>

HandshakeNext == Start \/ StopExisting \/ Unlock \/ HandshakeSpawn \/ Insert \/ Returned

HandshakeSpec == Init /\ [][HandshakeNext]_vars

(***************************************************************************)
(* SoloSpec: manual starts, one after the other and with nothing else      *)
(* running, on a registry that holds any of the entries the supervisor     *)
(* leaves behind (none, one tenant's, both tenants'; workers running or    *)
(* exited; started manually or restarted once).                            *)
(***************************************************************************)
SoloEntries(port) ==
    {WorkbookServerProcess(child, port, d, rc) :
         child \in {"running", "exited"}, d \in {"/tmp/wb1"}, rc \in {0, 1}}

SoloRegistries ==
    {<< >>}
        \cup {[w \in {"wb-1"} |-> e1] : e1 \in SoloEntries(55001)}
        \cup {[w \in {"wb-2"} |-> e2] : e2 \in SoloEntries(55002)}
        \cup {[w \in Workbooks |-> IF w = "wb-1" THEN e1 ELSE e2] :
                  e1 \in SoloEntries(55001), e2 \in SoloEntries(55002)}

SoloInit ==
    /\ RmInit /\ rr = RrIdle /\ AppInit
    /\ workbook_servers \in SoloRegistries
    /\ lock = "free"
    /\ task = [c \in Callers |-> IdleTask]
    /\ mon = IdleMonitor

SoloNext == Start \/ StopExisting \/ Unlock \/ Spawn \/ Insert \/ Returned

SoloSpec == SoloInit /\ [][SoloNext]_vars

(***************************************************************************)
(* RaceSpec: two callers issue start commands at the same time (tauri runs *)
(* every command invocation as a task of its own) while workers exit and   *)
(* the monitor restarts them.                                              *)
(***************************************************************************)
RaceStart ==
    \E c \in Callers, w \in Workbooks :
        StartLock(c, w, "/tmp/wb1") /\ UNCHANGED <<rmVars, rr, appVars>>
RaceStopExisting == \E c \in Callers : StartStopExisting(c) /\ UNCHANGED <<rmVars, rr, appVars>>
RaceUnlock == \E c \in Callers : StartUnlock(c) /\ UNCHANGED <<rmVars, rr, appVars>>
RaceSpawn ==
    \E c \in Callers, attempt \in LiveAttempts :
        StartSpawn(c, attempt) /\ UNCHANGED <<rmVars, rr, appVars>>
RaceInsert == \E c \in Callers : StartInsert(c) /\ UNCHANGED <<rmVars, rr, appVars>>
RaceReturn == \E c \in Callers : Return(c) /\ UNCHANGED <<rmVars, rr, appVars>>

RaceNext ==
    \/ RaceStart \/ RaceStopExisting \/ RaceUnlock \/ RaceSpawn \/ RaceInsert \/ RaceReturn
    \/ Exit
    \/ Scan \/ LiveRespawn \/ Reinsert

RaceSpec == Init /\ [][RaceNext]_vars

(***************************************************************************)
(* LockSpec: the commands that take the state lock (start, stop, delete,   *)
(* status), one invocation at a time, the restart monitor, and workers     *)
(* that exit or stop answering.  A handler that holds the lock goes on as  *)
(* soon as the call it waits for ends; a request without a timeout to a    *)
(* worker that does not answer never ends.                                 *)
(***************************************************************************)
Delete == \E w \in Workbooks : DeleteLock(UI, w) /\ UNCHANGED <<rmVars, rr, appVars>>
DeleteStop ==
    \E response \in StopResponses : DeletePost(UI, response) /\ UNCHANGED <<rmVars, rr, appVars>>
DeleteRemoveDir ==
    \E removed \in BOOLEAN : DeleteDir(UI, removed) /\ UNCHANGED <<rmVars, rr, appVars>>
Status == \E w \in Workbooks : StatusLock(UI, w) /\ UNCHANGED <<rmVars, rr, appVars>>
Ping == \E response \in StopResponses : StatusPing(UI, response) /\ UNCHANGED <<rmVars, rr, appVars>>
Fallback ==
    \E response \in {"success", "error_status", "refused"} :
        StatusFallback(UI, response) /\ UNCHANGED <<rmVars, rr, appVars>>
Hang == \E w \in Workbooks : WorkerHang(w) /\ UNCHANGED <<rmVars, rr, appVars>>

LockNext ==
    \/ Start \/ StopExisting \/ Unlock \/ LiveSpawn \/ Insert
    \/ Stop \/ Kill
    \/ Delete \/ DeleteStop \/ DeleteRemoveDir
    \/ Status \/ Ping \/ Fallback
    \/ Returned
    \/ Exit \/ Hang
    \/ Scan \/ LiveRespawn \/ Reinsert

LockSpec ==
    /\ Init
    /\ [][LockNext]_vars
    /\ WF_vars(StopExisting)
    /\ WF_vars(Unlock)
    /\ WF_vars(Kill)
    /\ WF_vars(DeleteStop)
    /\ WF_vars(Ping)
    /\ WF_vars(LiveRespawn)
    /\ SF_vars(Reinsert)

(***************************************************************************)
(* JobSpec: any sequence of JobRegistry operations on a new registry while *)
(* the clock advances.                                                     *)
(***************************************************************************)
Descriptions == {"AI processing..."}

otherVars == <<rmVars, rr, supVars, active_workbook_id, closer, sse, server>>

\* A job with a new id is stored only while the registry holds fewer than
\* MaxJobs, and the counter is followed up to MaxJobs on either side of 0.
RoomFor(session_id) ==
    JobId(session_id, Now) \in DOMAIN jobs \/ Cardinality(DOMAIN jobs) < MaxJobs
CounterRange == (0 - MaxJobs)..MaxJobs

JobRegister ==
    \E s \in Sessions, d \in Descriptions :
        /\ RoomFor(s) /\ register("wb-1", s, d) /\ active_count' \in CounterRange
        /\ UNCHANGED <<clock, otherVars>>
JobUpdateStatus ==
    \E id \in DOMAIN jobs, st \in JobStatus :
        /\ update_status(id, st) /\ active_count' \in CounterRange
        /\ UNCHANGED <<clock, otherVars>>
JobComplete ==
    \E id \in DOMAIN jobs :
        complete(id) /\ active_count' \in CounterRange /\ UNCHANGED <<clock, otherVars>>
JobFail ==
    \E id \in DOMAIN jobs :
        fail(id) /\ active_count' \in CounterRange /\ UNCHANGED <<clock, otherVars>>
JobCancel ==
    \E id \in DOMAIN jobs :
        cancel(id) /\ active_count' \in CounterRange /\ UNCHANGED <<clock, otherVars>>
JobCleanup == cleanup_old /\ UNCHANGED <<clock, otherVars>>
JobTick == Tick /\ UNCHANGED <<jobs, active_count, otherVars>>

JobNext ==
    \/ JobRegister \/ JobUpdateStatus \/ JobComplete \/ JobFail \/ JobCancel
    \/ JobCleanup \/ JobTick

JobSpec == Init /\ [][JobNext]_vars

(***************************************************************************)
(* EventSpec: the event listener handles the records of the feed one after *)
(* the other while the user changes the active workbook and the clock      *)
(* advances.                                                               *)
(***************************************************************************)
\* The registry is followed while it holds at most MaxJobs jobs.
EventRecord ==
    \E record \in SseRecords :
        /\ sse_record(record)
        /\ Cardinality(DOMAIN jobs') <= MaxJobs
        /\ UNCHANGED <<clock, otherVars>>
EventSetActive ==
    \E w \in Workbooks :
        /\ set_active_workbook(w)
        /\ UNCHANGED <<jobs, active_count, clock, closer, sse, server, rmVars, rr, supVars>>
EventTick == Tick /\ UNCHANGED <<jobs, active_count, otherVars>>

EventNext == EventRecord \/ EventSetActive \/ EventTick

EventSpec == Init /\ [][EventNext]_vars

(***************************************************************************)
(* TeardownSpec: runtimes are inserted into the RuntimeManager and windows *)
(* registered, the event listener tracks jobs for the active workbook, and *)
(* windows are closed.                                                     *)
(***************************************************************************)
\* Labels registered with a runtime: the workbook's window and another one.
CloseLabels(workbook_id) == {window_label(workbook_id), "W1"}

jobAppVars == <<jobs, active_count, active_workbook_id, clock, sse, server>>

TdInsert ==
    \E w \in Workbooks :
        /\ w \notin DOMAIN runtimes
        /\ \E port \in {RUNTIME_PORT_START, RUNTIME_PORT_START + 1} :
               insert(w, RuntimeInfo(port))
        /\ UNCHANGED <<rr, supVars, appVars>>
TdRegisterWindow ==
    \E w \in Workbooks : \E l \in CloseLabels(w) :
        /\ lock = "free"
        /\ register_window(w, l)
        /\ UNCHANGED <<rr, supVars, appVars>>
TdClose ==
    \E w \in Workbooks, force \in BOOLEAN :
        CloseCheck(w, force) /\ UNCHANGED <<rr, supVars, jobAppVars>>
TdUnregister ==
    \E window_closed \in BOOLEAN :
        CloseUnregister(window_closed) /\ UNCHANGED <<rr, supVars, jobAppVars>>
TdReturn == CloseReturn /\ UNCHANGED <<rr, supVars, jobAppVars>>

\* The feed: one session, one status of each bucket.
TdRecords ==
    {DataRecord(SessionStatus("s1", st)) : st \in {"running", "completed", "failed"}}
TdEvent ==
    \E record \in TdRecords :
        /\ sse_record(record)
        /\ Cardinality(DOMAIN jobs') <= MaxJobs
        /\ UNCHANGED <<clock, otherVars>>

TeardownNext ==
    \/ TdInsert \/ TdRegisterWindow \/ TdClose \/ TdUnregister \/ TdReturn
    \/ TdEvent \/ EventSetActive

TeardownSpec == Init /\ [][TeardownNext]_vars

(***************************************************************************)
(* CloseSpec: as TeardownSpec without the event feed, the job counters of  *)
(* the runtimes being moved through increment_jobs and decrement_jobs.     *)
(***************************************************************************)
ClIncrement ==
    \E w \in Workbooks :
        /\ w \in DOMAIN runtimes
        /\ runtimes[w].active_jobs < MaxJobs
        /\ increment_jobs(w)
        /\ UNCHANGED <<rr, supVars, appVars>>
ClDecrement ==
    \E w \in Workbooks :
        /\ w \in DOMAIN runtimes
        /\ runtimes[w].active_jobs > 0 - MaxJobs
        /\ decrement_jobs(w)
        /\ UNCHANGED <<rr, supVars, appVars>>

CloseNext ==
    \/ TdInsert \/ TdRegisterWindow \/ TdClose \/ TdUnregister \/ TdReturn
    \/ ClIncrement \/ ClDecrement

CloseSpec == Init /\ [][CloseNext]_vars

(***************************************************************************)
(* ListenerSpec: the event-stream listener alone.  The server refuses or   *)
(* accepts each connection and, on an accepted one, sends a stream of up   *)
(* to MaxRecords records, cut into chunks at any byte boundaries; it may   *)
(* break the stream at any point, close it at its end, or keep it open.    *)
(* The listener's own steps (the end of a sleep, the loop over the buffer) *)
(* are taken when they can be; what the server does is up to the server.   *)
(***************************************************************************)
\* The records a stream is made of: a status event on one line, a status
\* event behind an `event:` line, a record without a data line, a record
\* whose data line is cut short.  Session ids are "s1" and "s" followed by
\* the two-byte character.
SessionIdBytes == {<<"s", "1">>, <<"s", "0xC3", "0xA9">>}
StreamRecords ==
    {<<DataPrefix("running")>> \o id \o <<JsonClose, LF, LF>> : id \in SessionIdBytes}
        \cup {<<EventLine, LF, DataPrefix("completed")>> \o id \o <<JsonClose, LF, LF>> :
                  id \in SessionIdBytes}
        \cup {<<EventLine, LF, LF>>, <<DataPrefix("running"), "s", LF, LF>>}

\* The text a stream may end with when it stops inside a record.
StreamTails == {<< >>, <<DataPrefix("running"), "s">>}

RECURSIVE RecordSeqs(_)
RecordSeqs(n) ==
    IF n = 0
        THEN {<< >>}
        ELSE RecordSeqs(n - 1) \cup {q \o r : q \in RecordSeqs(n - 1), r \in StreamRecords}

Streams == {q \o tail : q \in RecordSeqs(MaxRecords), tail \in StreamTails}

lsVars == <<rmVars, rr, supVars, active_workbook_id, clock, closer, server>>

LsConnect == ListenerConnect /\ UNCHANGED lsVars
LsResponse ==
    \E outcome \in {"failed", "non_success", "success"}, stream \in Streams :
        /\ outcome # "success" => stream = << >>
        /\ ListenerResponse(outcome, stream)
        /\ UNCHANGED lsVars
LsChunk == \E n \in 1..Len(sse.wire) : ListenerChunk(n) /\ UNCHANGED lsVars
LsRecord == ListenerRecord /\ UNCHANGED lsVars
LsParsed == ListenerParsed /\ UNCHANGED lsVars
LsStreamEnd == \E how \in {"end", "error"} : ListenerStreamEnd(how) /\ UNCHANGED lsVars

ListenerNext == LsConnect \/ LsResponse \/ LsChunk \/ LsRecord \/ LsParsed \/ LsStreamEnd

ListenerSpec ==
    /\ Init
    /\ [][ListenerNext]_vars
    /\ WF_vars(LsConnect)
    /\ WF_vars(LsRecord)
    /\ WF_vars(LsParsed)

(***************************************************************************)
(* Claims                                                                  *)
(***************************************************************************)

\* C1: every port allocate_port returns lies in the runtime range and was not
\* in the allocated set when the call was made (so no two ports allocated at
\* the same time are equal).
C1_AllocateReturnsFreePortInRange ==
    [][allocate_port =>
          (rm_call'.ret # None =>
              /\ rm_call'.ret[1] \in RuntimePorts
              /\ rm_call'.ret[1] \notin allocated_ports
              /\ allocated_ports' = allocated_ports \cup {rm_call'.ret[1]})]_vars

\* An allocation that succeeded while other ports were allocated and the port
\* range's first port was taken (the scan had to pass over allocated ports).
C1_Witness ==
    /\ rm_call.op = "allocate_port"
    /\ rm_call.ret # None
    /\ rm_call.ret[1] # RUNTIME_PORT_START
    /\ Cardinality(allocated_ports \cap RuntimePorts) >= 3

\* C2: allocate_port returns None if and only if every port of the range is
\* allocated at the call, whatever the cursor; a failing call changes neither
\* the allocated set nor the cursor.
C2_NoneIffRangeExhausted ==
    [][allocate_port =>
          /\ (rm_call'.ret = None) <=> (RuntimePorts \subseteq allocated_ports)
          /\ (rm_call'.ret = None) =>
                (allocated_ports' = allocated_ports /\ next_port' = next_port)]_vars

\* A failed allocation with the cursor in the middle of the range.
C2_Witness ==
    /\ rm_call.op = "allocate_port"
    /\ rm_call.ret = None
    /\ next_port \notin {RUNTIME_PORT_START, RUNTIME_PORT_END}

\* C3: in the round-robin scenario every allocation succeeds, ports come in
\* cursor order (each one the successor of the one before, wrapping from the
\* end of the range to its start; releases in between do not move the cursor),
\* and no port is returned a second time before every port of the range has
\* been returned once.
C3_RoundRobinFairness ==
    LET r == rr.returned IN
    /\ \A i \in 1..Len(r) : r[i] # None /\ r[i][1] \in RuntimePorts
    /\ \A i \in 1..(Len(r) - 1) : r[i + 1][1] = NextPortAfter(r[i][1])
    /\ \A j \in 1..Len(r) : \A i \in 1..(j - 1) :
           r[i] = r[j] => RuntimePorts \subseteq {r[k][1] : k \in 1..(j - 1)}
    /\ (rr.phase \in {"release", "second"} /\ Len(r) > 0) =>
           next_port = NextPortAfter(r[Len(r)][1])

\* The scenario completed with a second batch that wrapped around the end of
\* the range and returned a port of the first batch again.
C3_Witness ==
    /\ rr.phase = "done"
    /\ rr.n < NumPorts
    /\ \E i \in 1..Len(rr.returned) : \E j \in (i + 1)..Len(rr.returned) :
           rr.returned[i] = rr.returned[j]
    /\ \E i \in 1..(Len(rr.returned) - 1) :
           rr.returned[i][1] = RUNTIME_PORT_END /\ rr.returned[i + 1][1] = RUNTIME_PORT_START

\* C4: a port is in the allocated set if and only if some entry of the
\* runtime table holds it as its runtime port.
C4_AllocatedIffHeld ==
    allocated_ports = {runtimes[w].runtime_port : w \in DOMAIN runtimes}

\* C10: for a workbook with an entry, unregister_window returns true exactly
\* when the entry's window set is empty after the removal: false when another
\* window is still registered (W1 of {W1, W2}), true for the last one.
C10_UnregisterReturnsEmptiness ==
    [][\A w \in Workbooks, l \in WindowLabels :
          (unregister_window(w, l) /\ w \in DOMAIN runtimes) =>
              /\ runtimes'[w].windows = runtimes[w].windows \ {l}
              /\ rm_call'.ret = Some(runtimes'[w].windows = {})
              /\ (\E other \in runtimes[w].windows : other # l) => rm_call'.ret = Some(FALSE)
              /\ runtimes[w].windows = {l} => rm_call'.ret = Some(TRUE)]_vars

\* Two windows were registered against one workbook and one of them has just
\* been unregistered: the call returned false and one window is left.
C10_Witness ==
    /\ rm_call.op = "unregister_window"
    /\ rm_call.ret = Some(FALSE)
    /\ \E w \in DOMAIN runtimes : Cardinality(runtimes[w].windows) = 1

\* C5 (as claimed): a start request for a tenant whose registry entry is live
\* leaves that entry as it is: the handler's stop loop does not remove or
\* change it.
C5_StartIsIdempotent ==
    [][\A c \in Callers :
          (/\ StartStopExisting(c)
           /\ task[c].workbook_id \in DOMAIN workbook_servers
           /\ workbook_servers[task[c].workbook_id].child = "running") =>
              /\ task[c].workbook_id \in DOMAIN workbook_servers'
              /\ workbook_servers'[task[c].workbook_id] =
                     workbook_servers[task[c].workbook_id]]_vars

\* C5 (amended): a start request stops every registered runtime, the
\* tenant's own included: the ids it finds under the lock are removed one by
\* one, so that the registry is empty when the lock is dropped before the
\* spawn; a successful start then stores a new entry with the new worker's
\* port, the given directory and restart count 0, and returns that port.
C5_StartReplacesExistingEntry ==
    /\ [][\A c \in Callers, w \in Workbooks, d \in Directories :
              StartLock(c, w, d) =>
                  /\ task'[c].existing_ids = DOMAIN workbook_servers
                  /\ task'[c].stopped = {}]_vars
    /\ [][\A c \in Callers :
              StartStopExisting(c) =>
                  \E id \in task[c].existing_ids :
                      /\ id \notin DOMAIN workbook_servers'
                      /\ task'[c].existing_ids = task[c].existing_ids \ {id}
                      /\ id \in DOMAIN workbook_servers => id \in task'[c].stopped]_vars
    /\ [][\A c \in Callers : StartUnlock(c) => DOMAIN workbook_servers = {}]_vars
    /\ [][\A c \in Callers :
              StartInsert(c) =>
                  /\ workbook_servers'[task[c].workbook_id] =
                         WorkbookServerProcess("running", task[c].runtime_port,
                                               task[c].directory, 0)
                  /\ task'[c].result.status = "ok"
                  /\ task'[c].result.running
                  /\ task'[c].result.runtime_port = task[c].runtime_port]_vars

\* A start request for a tenant that had an entry stopped it and succeeded.
C5_Witness ==
    \E c \in Callers :
        /\ task[c].op = "start_workbook_server"
        /\ task[c].workbook_id \in task[c].stopped
        /\ task[c].pc = "done"
        /\ task[c].result.status = "ok"
        /\ task[c].workbook_id \in DOMAIN workbook_servers
        /\ workbook_servers[task[c].workbook_id].restart_count = 0

\* C7 (as claimed): once a tenant's restarts are used up (its entry's restart
\* count has reached MAX_RESTARTS) and its worker has exited again, the
\* monitor's tick leaves the tenant without an entry in the registry and
\* queues no spawn for it.
C7_ExhaustedTenantLeavesRegistry ==
    [][MonitorScan =>
          \A id \in DOMAIN workbook_servers :
              (workbook_servers[id].child = "exited"
                   /\ workbook_servers[id].restart_count >= MAX_RESTARTS) =>
                  /\ id \notin DOMAIN workbook_servers'
                  /\ \A i \in 1..Len(mon'.to_restart) : mon'.to_restart[i][1] # id]_vars

\* C8: when a spawned worker's handshake fails (its output ends or the
\* timeout passes before a ready message), the child is killed and an error
\* comes back; the start handler returns that error without touching the
\* registry, the monitor drops the queued restart without storing an entry.
C8_FailedHandshakeKillsAndRegistersNothing ==
    /\ [][\A attempt \in SupAttempts :
              (attempt.spawned /\ ReadReady(attempt.lines) = None
                   /\ StartSpawn(UI, attempt)) =>
                  /\ task'[UI].child = "killed"
                  /\ task'[UI].pc = "done"
                  /\ task'[UI].result.status = "err"
                  /\ task'[UI].result.message =
                         (IF attempt.ending = "eof"
                              THEN "Runtime exited without ready message"
                              ELSE "Timeout waiting for runtime to start")
                  /\ workbook_servers' = workbook_servers]_vars
    /\ [][\A attempt \in SupAttempts :
              (attempt.spawned /\ ReadReady(attempt.lines) = None
                   /\ MonitorSpawn(attempt)) =>
                  /\ spawn_workbook_server(attempt).child = "killed"
                  /\ ~spawn_workbook_server(attempt).ok
                  /\ mon'.pc # "insert"
                  /\ mon'.to_restart = Tail(mon.to_restart)
                  /\ workbook_servers' = workbook_servers]_vars
    /\ [][(task[UI].pc = "done" /\ task[UI].result.status = "err") =>
              (task'[UI].pc \in {"done", "idle"}
                   /\ (workbook_servers' # workbook_servers => task' = task))]_vars

\* A manual start has failed in the handshake: child killed, error returned.
C8_Witness ==
    /\ task[UI].op = "start_workbook_server"
    /\ task[UI].pc = "done"
    /\ task[UI].result.status = "err"
    /\ task[UI].child = "killed"
    /\ task[UI].workbook_id \notin DOMAIN workbook_servers

\* A ready message of the worker contract: a line that is the JSON object
\* {"type":"ready","runtimePort":<uint16>}.
C9_IsReadyMessage(line) ==
    /\ ~line.indent
    /\ line.json = "object"
    /\ line.type = "ready"
    /\ line.port # None
    /\ line.port[1] \in 0..U16_MAX

C16_ActiveCountEqualsRunningJobs ==
    active_count = Cardinality(list_active)

\* C20 (as claimed): cleanup_old removes exactly the jobs that are terminal
\* and were last updated more than one retention window ago; the jobs it
\* keeps and the active count stay as they were.
C20_CleanupRemovesExactlyOldTerminalJobs ==
    [][JobCleanup =>
          LET old == {id \in DOMAIN jobs :
                          /\ jobs[id].status \in {"Completed", "Failed", "Cancelled"}
                          /\ Now - jobs[id].updated_at > RETENTION_MS} IN
          /\ DOMAIN jobs' = DOMAIN jobs \ old
          /\ \A id \in DOMAIN jobs' : jobs'[id] = jobs[id]
          /\ active_count' = active_count]_vars

\* C11: the close handler takes a runtime out of the registry only when,
\* with the closing window unregistered, its window set is empty and its
\* job counter is zero, and then kills its process and releases its port;
\* it does so whenever the window closed and both conditions hold; in every
\* other case the runtime stays with its process, its counter and its port,
\* and the allocated ports stay as they were.  The check before the window
\* is closed changes nothing.
C11_TeardownOnlyWithoutWindowsAndJobs ==
    /\ [][(closer.pc = "close_window" /\ closer'.pc = "done"
               /\ closer.workbook_id \in DOMAIN runtimes) =>
              LET w == closer.workbook_id
                  left == runtimes[w].windows \ {window_label(w)} IN
              IF w \notin DOMAIN runtimes'
                  THEN /\ left = {}
                       /\ runtimes[w].active_jobs = 0
                       /\ closer'.killed = {w}
                       /\ closer'.result = Some(TRUE)
                       /\ allocated_ports' = allocated_ports \ {runtimes[w].runtime_port}
                  ELSE /\ ~(closer'.result = Some(TRUE)
                                /\ left = {} /\ runtimes[w].active_jobs = 0)
                       /\ closer'.killed = {}
                       /\ runtimes'[w].process = "running"
                       /\ runtimes'[w].runtime_port = runtimes[w].runtime_port
                       /\ runtimes'[w].active_jobs = runtimes[w].active_jobs
                       /\ runtimes'[w].windows \in {runtimes[w].windows, left}
                       /\ allocated_ports' = allocated_ports]_vars
    /\ [][(closer.pc = "close_window" /\ closer'.pc = "done") =>
              \A w \in Workbooks \ {closer.workbook_id} :
                  /\ w \in DOMAIN runtimes <=> w \in DOMAIN runtimes'
                  /\ w \in DOMAIN runtimes => runtimes'[w] = runtimes[w]]_vars
    /\ [][(closer.pc = "idle" /\ closer'.pc # "idle") =>
              (runtimes' = runtimes /\ allocated_ports' = allocated_ports)]_vars

\* A close has torn a runtime down while the other runtime, which has
\* running jobs, is still registered.
C11_Witness ==
    /\ closer.pc = "done"
    /\ closer.killed # {}
    /\ closer.workbook_id \notin DOMAIN runtimes
    /\ \E w \in DOMAIN runtimes : runtimes[w].active_jobs > 0 /\ runtimes[w].windows = {}

\* C12 (as claimed): the job counter of every registered runtime is the
\* number of Running jobs of the JobRegistry whose workbook is that runtime's.
C12_RuntimeCounterEqualsRunningJobs ==
    \A w \in DOMAIN runtimes :
        runtimes[w].active_jobs =
            Cardinality({j \in values : j.workbook_id = w /\ is_active(j)})

\* C13 (as claimed): a window close never takes a runtime out of the
\* registry while the JobRegistry holds a Running job for its workbook.
C13_NoTeardownWhileJobRunning ==
    [][\A w \in Workbooks :
          (closer.pc = "close_window" /\ w \in DOMAIN runtimes /\ w \notin DOMAIN runtimes') =>
              ~has_active_jobs(w)]_vars

\* The listener handling a session.status event / a session.updated event
\* with a status, as a step.
C_StatusStep(session_id, status) ==
    sse_record(DataRecord(SessionStatus(session_id, status)))
C_UpdatedStep(session_id, status) ==
    sse_record(DataRecord(SessionUpdated(session_id, Some(status))))

\* C14: the registry never holds two Running jobs of one session, and a
\* running-class event for a session that has a Running job leaves the jobs
\* and the active count as they are.
C14_OneRunningJobPerSession ==
    /\ [](\A s \in Sessions : Cardinality(find_active_by_session(s)) <= 1)
    /\ [][\A s \in Sessions, st \in {"running", "pending", "streaming"} :
              (C_StatusStep(s, st) /\ find_active_by_session(s) # {}) =>
                  (jobs' = jobs /\ active_count' = active_count)]_vars

\* A session that ran and finished earlier is running again: it has one
\* Running job next to its finished one.
C14_Witness ==
    \E s \in Sessions :
        /\ Cardinality(find_active_by_session(s)) = 1
        /\ Cardinality(find_by_session(s)) = 2

\* C15 (as claimed): a completed-class or failed-class event for a session
\* that has a Running job moves that job to Completed or Failed, lowers the
\* active count by one and leaves the session without a Running job.
C15_TerminalEventFinishesRunningJob ==
    [][\A s \in Sessions, st \in {"completed", "idle", "done", "failed", "error", "cancelled"} :
          (C_StatusStep(s, st) /\ find_active_by_session(s) # {}) =>
              /\ \A job \in find_active_by_session(s) :
                     /\ job.id \in DOMAIN jobs'
                     /\ jobs'[job.id].status =
                            (IF st \in {"completed", "idle", "done"}
                                 THEN "Completed" ELSE "Failed")
              /\ active_count' = active_count - 1
              /\ \A id \in DOMAIN jobs' :
                     jobs'[id].session_id = s => jobs'[id].status # "Running"]_vars

\* C17: the three buckets are the three lists of strings and share no
\* string; a session.status event acts by the bucket of its status: a running
\* status registers a Running job for a session without one, a completed or
\* failed status moves one job of the session to Completed or Failed, and a
\* status in no bucket changes nothing.
C17_StatusBuckets ==
    /\ \A st \in StatusStrings :
           /\ is_running_status(st) <=> st \in {"running", "pending", "streaming"}
           /\ is_completed_status(st) <=> st \in {"completed", "idle", "done"}
           /\ is_failed_status(st) <=> st \in {"failed", "error", "cancelled"}
           /\ ~(is_running_status(st) /\ is_completed_status(st))
           /\ ~(is_running_status(st) /\ is_failed_status(st))
           /\ ~(is_completed_status(st) /\ is_failed_status(st))
    /\ [][\A s \in Sessions, st \in StatusStrings :
              C_StatusStep(s, st) =>
                  LET moved(to) ==
                          IF find_by_session(s) = {}
                              THEN jobs' = jobs /\ active_count' = active_count
                              ELSE \E id \in DOMAIN jobs :
                                       /\ jobs[id].session_id = s
                                       /\ DOMAIN jobs' = DOMAIN jobs
                                       /\ jobs'[id].status = to
                                       /\ \A other \in DOMAIN jobs \ {id} :
                                              jobs'[other] = jobs[other] IN
                  CASE st \in {"running", "pending", "streaming"} ->
                           IF find_active_by_session(s) # {}
                               THEN jobs' = jobs /\ active_count' = active_count
                               ELSE /\ Cardinality(find_active_by_session(s)') = 1
                                    /\ active_count' = active_count + 1
                    [] st \in {"completed", "idle", "done"} -> moved("Completed")
                    [] st \in {"failed", "error", "cancelled"} -> moved("Failed")
                    [] OTHER -> jobs' = jobs /\ active_count' = active_count]_vars

\* The registry holds a Completed job and a Failed job.
C17_Witness ==
    \E j1, j2 \in values : j1.status = "Completed" /\ j2.status = "Failed"

\* C18: a step is the handling of a session.updated event with a status
\* exactly when it is the handling of the session.status event with the same
\* session id and status; a session.updated event without a status changes
\* neither the jobs nor the active count.
C18_UpdatedActsAsStatus ==
    /\ [][\A s \in Sessions, st \in StatusStrings :
              C_UpdatedStep(s, st) <=> C_StatusStep(s, st)]_vars
    /\ [][\A s \in Sessions :
              sse_record(DataRecord(SessionUpdated(s, None))) =>
                  (jobs' = jobs /\ active_count' = active_count)]_vars

\* Both sessions have a job, one Running and one finished.
C18_Witness ==
    /\ \A s \in Sessions : find_by_session(s) # {}
    /\ \E j1, j2 \in values : j1.status = "Running" /\ j2.status # "Running"

\* The jobs, the active count and both runtime registries stay as they are.
C_RegistriesUnchanged ==
    /\ jobs' = jobs
    /\ active_count' = active_count
    /\ runtimes' = runtimes
    /\ allocated_ports' = allocated_ports
    /\ workbook_servers' = workbook_servers

\* C19: a record that is no session.status or session.updated event (a
\* message.part.updated event, an event of unknown type, a data line that
\* does not parse, no data line), and a completed-class or failed-class
\* event for a session without a job, leave the jobs, the active count and
\* both runtime registries as they are.
C19_OtherEventsChangeNothing ==
    /\ [][\A record \in {GarbageRecord, CommentRecord, DataRecord(Unknown)}
                            \cup {DataRecord(MessagePartUpdated(s)) : s \in Sessions} :
              (EventRecord /\ sse_record(record)) => C_RegistriesUnchanged]_vars
    /\ [][\A s \in Sessions, st \in {"completed", "idle", "done", "failed", "error", "cancelled"} :
              (EventRecord /\ C_StatusStep(s, st) /\ find_by_session(s) = {}) =>
                  C_RegistriesUnchanged]_vars

\* One session has a job and the other has none.
C19_Witness ==
    \E s1, s2 \in Sessions : find_by_session(s1) # {} /\ find_by_session(s2) = {}

\* Allocating again and again from `cursor` with `allocated` taken hands out
\* port p within n + 1 calls, none of which fails.
RECURSIVE C29_AllocationReaches(_, _, _, _)
C29_AllocationReaches(p, cursor, allocated, n) ==
    LET found == ScanPorts(cursor, cursor, allocated) IN
    /\ found # None
    /\ \/ found[1] = p
       \/ /\ n > 0
          /\ C29_AllocationReaches(p, NextCursor(found[1]), allocated \cup {found[1]}, n - 1)

\* C29: release_port(p) takes p, and nothing else, out of the allocated set
\* and leaves the cursor and the runtime table as they are; when p was not
\* allocated the set stays as it is; a released port of the range is handed
\* out again by the allocate_port calls that follow (at the latest by the
\* NumPorts-th), and the call that has the cursor on it returns it.
C29_ReleaseMakesPortEligible ==
    [][\A port \in PortInputs :
          (PortRelease /\ release_port(port)) =>
              /\ allocated_ports' = allocated_ports \ {port}
              /\ port \notin allocated_ports => allocated_ports' = allocated_ports
              /\ \A other \in PortInputs \ {port} :
                     other \in allocated_ports' <=> other \in allocated_ports
              /\ next_port' = next_port
              /\ runtimes' = runtimes
              /\ port \in RuntimePorts =>
                     /\ C29_AllocationReaches(port, next_port', allocated_ports', NumPorts - 1)
                     /\ ScanPorts(port, port, allocated_ports') = Some(port)]_vars

\* A port the cursor has passed was released while another port stays
\* allocated: the first port of the range is free again, the second is taken
\* and the cursor is on the third.
C29_Witness ==
    /\ rm_call.op = "release_port"
    /\ RUNTIME_PORT_START \notin allocated_ports
    /\ RUNTIME_PORT_START + 1 \in allocated_ports
    /\ next_port = RUNTIME_PORT_START + 2

\* C24: stop_runtime for a tenant with an entry takes the entry out of the
\* registry (nothing else in it changes) and then, whatever the outcome of
\* the graceful-stop request, kills the worker and returns running = false;
\* for a tenant without an entry it returns running = false and leaves the
\* registry, the lock and the monitor as they are, so that a stop following
\* a stop changes nothing.
C24_StopRemovesKillsAndIsIdempotent ==
    /\ [][\A w \in Workbooks :
              (Stop /\ StopLock(UI, w) /\ w \in DOMAIN workbook_servers) =>
                  /\ workbook_servers' = RemoveKey(workbook_servers, w)
                  /\ task'[UI].pc = "stop_kill"
                  /\ task'[UI].child = workbook_servers[w].child]_vars
    /\ [][\A response \in StopResponses :
              (Kill /\ StopKill(UI, response)) =>
                  /\ task'[UI].child = "killed"
                  /\ task'[UI].pc = "done"
                  /\ task'[UI].result.status = "ok"
                  /\ ~task'[UI].result.running
                  /\ task[UI].workbook_id \notin DOMAIN workbook_servers'
                  /\ workbook_servers' = workbook_servers]_vars
    /\ [][\A w \in Workbooks :
              (Stop /\ StopLock(UI, w) /\ w \notin DOMAIN workbook_servers) =>
                  /\ task'[UI].pc = "done"
                  /\ task'[UI].result.status = "ok"
                  /\ ~task'[UI].result.running
                  /\ task'[UI].child = "none"
                  /\ workbook_servers' = workbook_servers
                  /\ lock' = lock
                  /\ mon' = mon]_vars
    /\ [](task[UI].pc = "stop_kill" => lock = UI)

\* A stop has removed and killed a tenant's worker and returned "Runtime
\* stopped" while the other tenant's entry stays in the registry.
C24_Witness ==
    /\ task[UI].op = "stop_runtime"
    /\ task[UI].pc = "done"
    /\ task[UI].result = OkStatus(FALSE, 0, "Runtime stopped")
    /\ task[UI].child = "killed"
    /\ task[UI].workbook_id \notin DOMAIN workbook_servers
    /\ workbook_servers # << >>

\* C25: every stored restart count lies in 0..MAX_RESTARTS; a step that is
\* not the insert of a manual start never lowers the count of an entry and
\* never stores an entry with count 0 for a tenant that had none; the
\* monitor queues an entry it removes with its count plus one and stores
\* the queued count, and a queued count is at least 1 and above the count
\* of an entry the tenant has in the meantime (one a manual start stored),
\* so that the count only grows until the next manual start stores 0.
C25_RestartCountMonotonicAndBounded ==
    /\ [](\A w \in DOMAIN workbook_servers :
              workbook_servers[w].restart_count \in 0..MAX_RESTARTS)
    /\ [](\A i \in 1..Len(mon.to_restart) :
              /\ mon.to_restart[i][3] \in 1..MAX_RESTARTS
              /\ mon.to_restart[i][1] \in DOMAIN workbook_servers =>
                     workbook_servers[mon.to_restart[i][1]].restart_count
                         < mon.to_restart[i][3])
    /\ [][\A w \in DOMAIN workbook_servers' :
              \/ Insert /\ task[UI].workbook_id = w /\ workbook_servers'[w].restart_count = 0
              \/ /\ w \in DOMAIN workbook_servers
                 /\ workbook_servers'[w].restart_count >= workbook_servers[w].restart_count
                 /\ workbook_servers'[w].restart_count # workbook_servers[w].restart_count =>
                        Reinsert
              \/ /\ w \notin DOMAIN workbook_servers
                 /\ Reinsert
                 /\ Head(mon.to_restart)[1] = w
                 /\ workbook_servers'[w].restart_count = Head(mon.to_restart)[3]]_vars
    /\ [][Scan =>
              \A i \in 1..Len(mon'.to_restart) :
                  LET w == mon'.to_restart[i][1] IN
                  /\ w \in DOMAIN workbook_servers
                  /\ w \notin DOMAIN workbook_servers'
                  /\ mon'.to_restart[i][3] = workbook_servers[w].restart_count + 1]_vars

\* One tenant's entry has reached MAX_RESTARTS restarts while the other
\* tenant's entry, stored by a manual start, has count 0.
C25_Witness ==
    \E w1, w2 \in DOMAIN workbook_servers :
        /\ workbook_servers[w1].restart_count = MAX_RESTARTS
        /\ workbook_servers[w2].restart_count = 0

\* C28: a manual start that runs alone takes under the lock the ids of all
\* entries, removes and kills each of them (the entries still stored and the
\* ones stopped so far are together the entries found), and drops the lock
\* with the registry empty; the spawn comes after that, with the registry
\* still empty; a start that succeeds leaves exactly one entry, the started
\* tenant's, with a running worker.
C28_StartStopsAllOthersFirst ==
    /\ [][\A w \in Workbooks, d \in Directories :
              StartLock(UI, w, d) =>
                  /\ task'[UI].existing_ids = DOMAIN workbook_servers
                  /\ task'[UI].stopped = {}
                  /\ workbook_servers' = workbook_servers]_vars
    /\ [][StopExisting =>
              /\ task'[UI].stopped \cup DOMAIN workbook_servers'
                     = task[UI].stopped \cup DOMAIN workbook_servers
              /\ task'[UI].stopped \cap DOMAIN workbook_servers' = {}
              /\ DOMAIN workbook_servers' \subseteq task'[UI].existing_ids]_vars
    /\ [][Unlock => (workbook_servers = << >> /\ workbook_servers' = << >>)]_vars
    /\ [][Spawn => (workbook_servers = << >> /\ lock = "free"
                        /\ task[UI].existing_ids = {})]_vars
    /\ [][Insert =>
              /\ DOMAIN workbook_servers' = {task[UI].workbook_id}
              /\ workbook_servers'[task[UI].workbook_id].child = "running"
              /\ task'[UI].result.status = "ok"]_vars
    /\ []((task[UI].op = "start_workbook_server" /\ task[UI].pc = "done"
               /\ task[UI].result.status = "ok") =>
              DOMAIN workbook_servers = {task[UI].workbook_id})

\* A start found both tenants' entries, stopped both and succeeded: the
\* registry holds the started tenant's new entry and nothing else.
C28_Witness ==
    /\ task[UI].op = "start_workbook_server"
    /\ task[UI].pc = "done"
    /\ task[UI].result.status = "ok"
    /\ task[UI].stopped = Workbooks
    /\ DOMAIN workbook_servers = {task[UI].workbook_id}

\* The worker processes of a tenant that were spawned and are neither
\* killed nor exited: the registered one, the ones command handlers hold
\* (spawned and not yet stored, or taken out to be killed) and the one the
\* monitor holds between its spawn and its insert.
C27_LiveWorkers(w) ==
    Cardinality({c \in Callers : task[c].workbook_id = w /\ task[c].child = "running"})
        + (IF w \in DOMAIN workbook_servers /\ workbook_servers[w].child = "running"
               THEN 1 ELSE 0)
        + (IF mon.child = "running" /\ mon.to_restart # << >> /\ Head(mon.to_restart)[1] = w
               THEN 1 ELSE 0)

\* C27 (as claimed): no tenant ever has two live worker processes.
C27_OneLiveWorkerPerTenant ==
    \A w \in Workbooks : C27_LiveWorkers(w) <= 1

\* The position of the first `call` in the handler's calls, 0 when it is
\* not among them.
C26_Position(call) ==
    IF \E i \in 1..Len(closer.calls) : closer.calls[i] = call
        THEN CHOOSE i \in 1..Len(closer.calls) :
                 /\ closer.calls[i] = call
                 /\ \A j \in 1..(i - 1) : closer.calls[j] # call
        ELSE 0

\* C26 (as claimed): a close that tears the runtime down makes a graceful
\* stop request to the worker, then kills the process, then removes the
\* entry (which releases its port), in this order.
C26_StopThenKillThenRemove ==
    (closer.pc = "done" /\ closer.killed # {}) =>
        /\ C26_Position("stop_request") > 0
        /\ C26_Position("stop_request") < C26_Position("kill")
        /\ C26_Position("kill") < C26_Position("remove")

\* The handler of caller c is at a blocking call: a spawn with its handshake
\* wait, a graceful-stop request with the kill that follows it, or a status
\* request.
C22_AtBlockingCall(c) ==
    \/ task[c].pc \in {"start_spawn", "stop_kill", "delete_post", "status_ping",
                       "status_fallback"}
    \/ /\ task[c].pc = "start_stop_existing"
       /\ task[c].existing_ids \cap DOMAIN workbook_servers # {}

\* C22 (as claimed): no handler is at a blocking call while it holds the
\* state lock.
C22_NoLockAcrossBlockingCall ==
    \A c \in Callers : C22_AtBlockingCall(c) => lock # c

\* C23 (as claimed): a handler that holds the state lock releases it
\* eventually, whether or not the workers answer.
C23_LockEventuallyReleased ==
    \A c \in Callers : (lock = c) ~> (lock # c)

\* The records of a text, in order: each stretch that a blank line ends,
\* decoded.
RECURSIVE C30_Records(_)
C30_Records(text) ==
    IF find_blank_line(text) = 0
        THEN << >>
        ELSE <<decode_record(SubSeq(text, 1, find_blank_line(text) - 1))>>
                 \o C30_Records(SubSeq(text, find_blank_line(text) + 2, Len(text)))

\* The records the server has sent in full so far on this connection: those
\* of the text of the bytes received.
C30_Sent == C30_Records(from_utf8_lossy(SubSeq(sse.stream, 1, Len(sse.stream) - Len(sse.wire))))

\* C30 (as claimed): on a connection the records the listener has handled
\* are, in stream order and each once, the records sent in full so far:
\* all of them whenever the loop over the buffer has ended, a first part of
\* them while it runs, however the bytes were cut into chunks.
C30_RecordsHandledOnceInOrder ==
    /\ sse.pc = "reading" => sse.handled = C30_Sent
    /\ sse.pc = "parsing" =>
           /\ Len(sse.handled) <= Len(C30_Sent)
           /\ sse.handled = SubSeq(C30_Sent, 1, Len(sse.handled))


C37_WindowCallsWithoutEntryChangeNothing ==
    [][\A w \in Workbooks, l \in WindowLabels :
          w \notin DOMAIN runtimes =>
              /\ register_window(w, l) =>
                     UNCHANGED <<runtimes, allocated_ports, next_port>>
              /\ unregister_window(w, l) =>
                     /\ UNCHANGED <<runtimes, allocated_ports, next_port>>
                     /\ rm_call'.ret = Some(FALSE)
                     /\ ~teardown(rm_call'.ret[1], None)]_vars

\* unregister_window has just returned false for a tenant without an entry,
\* another tenant holding an entry with a window and a port.
C37_Witness ==
    /\ rm_call.op = "unregister_window"
    /\ rm_call.ret = Some(FALSE)
    /\ \E w \in DOMAIN runtimes : runtimes[w].windows # {}
    /\ \E w \in Workbooks : w \notin DOMAIN runtimes
    /\ \A w \in DOMAIN runtimes : Cardinality(runtimes[w].windows) # 1


\* C32 (as claimed): the job counter of every entry never wraps around (a
\* counter written as a negative number stands for a stored value of 2^64
\* less that much, see fetch_sub), and has_active_jobs is true only when the
\* increments of the entry outnumber its decrements (the counter, which
\* starts at 0 and moves by one per call, is then positive).
C32_JobCounterNeverWraps ==
    \A w \in DOMAIN runtimes :
        /\ runtimes[w].active_jobs >= 0
        /\ runtime_has_active_jobs(runtimes[w]) => runtimes[w].active_jobs > 0


\* C35 (as claimed): through the event path no job goes from Completed or
\* Failed back to Running; a running-class event for a session that has
\* jobs, all of them terminal, adds one job and leaves the jobs that were
\* there as they are; and no job is ever Cancelled.
C35_TerminalJobsStayTerminal ==
    /\ [][\A id \in DOMAIN jobs :
              (jobs[id].status \in {"Completed", "Failed"} /\ id \in DOMAIN jobs') =>
                  jobs'[id].status # "Running"]_vars
    /\ [][\A s \in Sessions, st \in {"running", "pending", "streaming"} :
              (/\ C_StatusStep(s, st) \/ C_UpdatedStep(s, st)
               /\ find_by_session(s) # {}
               /\ find_active_by_session(s) = {}) =>
                  /\ Cardinality(DOMAIN jobs') = Cardinality(DOMAIN jobs) + 1
                  /\ \A id \in DOMAIN jobs : id \in DOMAIN jobs' /\ jobs'[id] = jobs[id]]_vars
    /\ [](\A id \in DOMAIN jobs : jobs[id].status # "Cancelled")


\* The tenants the monitor has queued for a restart.
C31_Queued(m) == {m.to_restart[i][1] : i \in DOMAIN m.to_restart}

\* C31: a failed spawn or handshake is not tried again.  A manual start
\* whose attempt fails ends with the error, the registry as it was, and the
\* handler does nothing more than return.  A monitor restart that fails
\* leaves the registry as it was and drops the tenant from the monitor's
\* queue; a tenant enters that queue only from a registry entry whose worker
\* has exited, so the monitor makes no attempt for a tenant that is absent.
C31_FailedAttemptIsNotRetried ==
    /\ [][\A attempt \in SupAttempts :
              (StartSpawn(UI, attempt) /\ ~spawn_workbook_server(attempt).ok) =>
                  /\ task'[UI].pc = "done"
                  /\ task'[UI].result = ErrResult(spawn_workbook_server(attempt).err)
                  /\ workbook_servers' = workbook_servers]_vars
    /\ [][(task[UI].pc = "done" /\ task'[UI] # task[UI]) => task'[UI] = IdleTask]_vars
    /\ [][\A attempt \in SupAttempts :
              (MonitorSpawn(attempt) /\ ~spawn_workbook_server(attempt).ok) =>
                  /\ workbook_servers' = workbook_servers
                  /\ mon'.to_restart = Tail(mon.to_restart)
                  /\ Head(mon.to_restart)[1] \notin C31_Queued(mon')
                  /\ mon'.pc \in {"restart", "sleep"}]_vars
    /\ [][\A w \in C31_Queued(mon') \ C31_Queued(mon) :
              /\ w \in DOMAIN workbook_servers
              /\ workbook_servers[w].child = "exited"]_vars

\* A manual start has just failed with the handshake's timeout error: its
\* one attempt is over, nothing is registered, and no restart is queued.
C31_Witness ==
    /\ task[UI].op = "start_workbook_server"
    /\ task[UI].pc = "done"
    /\ task[UI].result = ErrResult("Timeout waiting for runtime to start")
    /\ workbook_servers = << >>
    /\ mon.pc = "sleep"


\* C33 (as claimed): a tenant whose stop_runtime has completed is absent from
\* the registry.  The state looked at is the one between the handler's end
\* and the delivery of its result, in which the one caller of Spec cannot
\* have started the tenant again.
C33_StoppedTenantStaysAbsent ==
    (task[UI].op = "stop_runtime" /\ task[UI].pc = "done") =>
        task[UI].workbook_id \notin DOMAIN workbook_servers


\* C34 (as claimed): the legacy registry never holds more than one entry.
C34_AtMostOneLegacyEntry ==
    Cardinality(DOMAIN workbook_servers) <= 1

(***************************************************************************)
(* RestartSpec: command handlers restart the OpenCode server and change    *)
(* the active workbook while one of them starts workbook runtimes and the  *)
(* event listener handles the records of the feed.                         *)
(***************************************************************************)
rsVars == <<rmVars, rr, jobs, active_count, clock, closer, sse>>

\* The caller of the restart commands; UI starts the runtimes.
Chat == "ui-2"

RsRestart == \E home \in BOOLEAN : RestartRead(Chat, home) /\ UNCHANGED rsVars
RsSetActive ==
    \E w \in Workbooks, home \in BOOLEAN, exists \in BOOLEAN :
        SetActiveWorkbook(Chat, w, home, exists) /\ UNCHANGED rsVars
RsLock == RestartLock(Chat) /\ UNCHANGED rsVars
RsStart == \E outcome \in RestartOutcomes : RestartStart(Chat, outcome) /\ UNCHANGED rsVars
RsReturn == \E c \in Callers : Return(c) /\ UNCHANGED <<rmVars, rr, appVars>>

\* The records of the feed: status and updated events of one session.
RsRecords ==
    {DataRecord(SessionStatus("s1", "running"))}
        \cup {DataRecord(SessionUpdated("s1", Some(st))) : st \in {"running", "completed"}}
        \cup {DataRecord(SessionUpdated("s1", None))}
RsEvent == \E record \in RsRecords : sse_record(record) /\ UNCHANGED <<clock, otherVars>>

RestartNext ==
    \/ RsRestart \/ RsSetActive \/ RsLock \/ RsStart \/ RsReturn
    \/ Start \/ StopExisting \/ Unlock \/ Spawn \/ Insert
    \/ RsEvent

RestartSpec == Init /\ [][RestartNext]_vars

\* The task's next step is a lock().await inside a handler that has run
\* since its first one: lines 840, 1347 and 1416.
C36_AwaitsLock(c) == task[c].pc \in {"start_insert", "restart_with_dir", "restart_legacy"}

\* C36: no task comes to a lock().await of the state lock while it holds the
\* lock: a handler that is about to take the lock again has dropped its
\* guard, every step that takes the lock finds it free, and the listener's
\* re-dispatch of a session.updated event takes the lock once: it is handled
\* whenever the lock is free and leaves the lock free.
C36_NoTaskLocksTwice ==
    /\ [](\A c \in Callers : lock = c => ~C36_AwaitsLock(c))
    /\ [][\A c \in Callers : (lock' = c /\ lock # c) => lock = "free"]_vars
    /\ [][\A s \in Sessions, st \in {"running", "pending", "streaming"} :
              (C_UpdatedStep(s, st) /\ jobs' # jobs) =>
                  (lock = "free" /\ lock' = "free")]_vars
    /\ [](lock = "free" =>
              \A s \in Sessions, st \in {"running", "pending", "streaming"} :
                  ENABLED C_UpdatedStep(s, st))

\* restart_server has read the directory of the active workbook from its
\* registry entry and dropped its guard, and restart_server_with_dir has
\* taken the lock again and is restarting the server.
C36_Witness ==
    \E c \in Callers :
        /\ task[c].op = "restart_server"
        /\ task[c].pc = "restart_start"
        /\ lock = c
        /\ task[c].workbook_id \in DOMAIN workbook_servers
        /\ task[c].directory = workbook_servers[task[c].workbook_id].directory

\* The close handler starts: its check, for workbook w and with the force
\* flag given.
C39_CheckStep(w, force) ==
    /\ closer.pc = "idle"
    /\ closer'.pc # "idle"
    /\ closer'.workbook_id = w
    /\ closer'.force = force

\* A close without force of a runtime that has active jobs returns false
\* before the window is closed: no call on the runtime is made and the
\* registry, the window sets and the ports stay as they are; every other
\* close goes on to close the window.
C39_RefusalChangesNothing ==
    \A w \in Workbooks, force \in BOOLEAN :
        C39_CheckStep(w, force) =>
            IF ~force /\ w \in DOMAIN runtimes /\ runtime_has_active_jobs(runtimes[w])
                THEN /\ closer'.pc = "done"
                     /\ closer'.result = Some(FALSE)
                     /\ closer'.calls = << >>
                     /\ UNCHANGED <<runtimes, allocated_ports, next_port>>
                ELSE closer'.pc = "close_window"

\* C39 (as claimed): without force and with active jobs the close returns
\* false and leaves the window, the window set, the registry and the ports
\* as they are; a forced close of a registered runtime ends with the
\* workbook's window unregistered, with or without active jobs.
C39_ForcedCloseAlwaysUnregisters ==
    /\ [][C39_RefusalChangesNothing]_vars
    /\ [][(closer.pc = "close_window" /\ closer.force /\ closer'.pc = "done"
               /\ closer.workbook_id \in DOMAIN runtimes) =>
              (closer.workbook_id \in DOMAIN runtimes' =>
                   window_label(closer.workbook_id)
                       \notin runtimes'[closer.workbook_id].windows)]_vars

\* C39: without force and with active jobs the close returns false and
\* leaves the window, the window set, the registry and the ports as they
\* are; a forced close of a registered runtime ends with the workbook's
\* window unregistered, with or without active jobs, unless closing the
\* window fails: then the handler returns the error and the registry, the
\* window sets and the ports stay as they are.
C39_ForcedCloseUnregistersClosedWindow ==
    /\ [][C39_RefusalChangesNothing]_vars
    /\ [][(closer.pc = "close_window" /\ closer.force /\ closer'.pc = "done"
               /\ closer.workbook_id \in DOMAIN runtimes) =>
              IF closer'.result = None
                  THEN UNCHANGED <<runtimes, allocated_ports, next_port>>
                  ELSE /\ closer'.result = Some(TRUE)
                       /\ closer.workbook_id \in DOMAIN runtimes' =>
                              window_label(closer.workbook_id)
                                  \notin runtimes'[closer.workbook_id].windows
                       /\ runtime_has_active_jobs(runtimes[closer.workbook_id]) =>
                              /\ closer.workbook_id \in DOMAIN runtimes'
                              /\ closer'.calls = <<"unregister_window">>]_vars

\* A forced close has unregistered the window of a runtime that has an
\* active job; the runtime is still registered, without windows.
C39_Witness ==
    /\ closer.pc = "done"
    /\ closer.force
    /\ closer.result = Some(TRUE)
    /\ closer.calls = <<"unregister_window">>
    /\ closer.workbook_id \in DOMAIN runtimes
    /\ runtimes[closer.workbook_id].active_jobs > 0
    /\ runtimes[closer.workbook_id].windows = {}

(***************************************************************************)
(* CloseLiveSpec: CloseSpec under the scheduling the runtime gives: a      *)
(* close handler that has started goes on to its end, and a job that is    *)
(* active finishes.  Nothing obliges the user to open or close a window.   *)
(***************************************************************************)
ClFinish ==
    \E w \in Workbooks :
        /\ w \in DOMAIN runtimes
        /\ runtimes[w].active_jobs > 0
        /\ decrement_jobs(w)
        /\ UNCHANGED <<rr, supVars, appVars>>

CloseLiveSpec ==
    /\ Init
    /\ [][CloseNext]_vars
    /\ WF_vars(TdUnregister)
    /\ WF_vars(TdReturn)
    /\ WF_vars(ClFinish)

\* The runtime of workbook w is registered with no window and no active job.
C38_Idle(w) ==
    /\ w \in DOMAIN runtimes
    /\ runtimes[w].windows = {}
    /\ runtimes[w].active_jobs = 0

\* C38 (as claimed): a registered runtime with an empty window set and a job
\* counter of zero is eventually taken out of the registry; so is the
\* runtime a forced close left without windows while a job was active, once
\* its counter is back at zero.
C38_IdleTenantEventuallyTornDown ==
    \A w \in Workbooks : C38_Idle(w) ~> (w \notin DOMAIN runtimes)

=============================================================================
